---- MODULE Spec2Model ----
(***************************************************************************)
(* Model of the EcoMAX360 protocol client: the asynchronous TCP client     *)
(* (api/client.py), the data coordinator's poll cycle (coordinator.py),    *)
(* the synchronous EcoMAXAPI.request (api.py), the frame CRC (trame.py)    *)
(* and the payload decoder (utils.py).                                     *)
(*                                                                         *)
(* Bytes are the integers 0..255.  A hex string (bytes.hex()) is a         *)
(* sequence of hex digits 0..15, two per byte, high digit first.           *)
(***************************************************************************)
EXTENDS Integers, Sequences, FiniteSets, TLC

(***************************************************************************)
(* Bounds of the model                                                     *)
(***************************************************************************)
\* socket objects that one run may create
MaxSockets == 3
\* operations started in one run
MaxOps == 2
\* largest max_tries argument passed to async_request
MaxTries == 3
\* bytes in a received buffer that is split
MaxBuffer == 4
\* bytes in a payload that is decoded
MaxPayload == 6
\* times the same buffer is split
MaxSplits == 2
\* bytes of a built frame among which a bit is flipped
MaxFrame == 32

(***************************************************************************)
(* Program constants                                                       *)
(***************************************************************************)
SendMaxAttempts == 10
ListenDefaultMaxTries == 100
ApiMaxTries == 3
\* EcoMaxClient.async_request: max_tries = 5
RequestDefaultMaxTries == 5
CrcPoly == 4129
StartByte == 104
\* utils.int16_to_hex: the largest value to_bytes(2, signed=True) accepts
Int16Max == 32767
EndByte == 22

(***************************************************************************)
(* Hex strings                                                             *)
(***************************************************************************)
\* a function with domain 1..n as a tuple
Tuple(f) == SubSeq(f, 1, Len(f))

\* bytes.hex(): two hex digits per byte
ToHex(bs) ==
    Tuple([i \in 1..(2 * Len(bs)) |->
        IF i % 2 = 1 THEN bs[(i + 1) \div 2] \div 16 ELSE bs[i \div 2] % 16])

\* bytes.fromhex() of an even-length hex string
FromHex(h) ==
    Tuple([i \in 1..(Len(h) \div 2) |-> 16 * h[2 * i - 1] + h[2 * i]])

\* Python's  needle in haystack  on strings
Contains(h, m) ==
    \/ Len(m) = 0
    \/ \E i \in 1..(Len(h) - Len(m) + 1) :
           /\ h[i] = m[1]
           /\ \A k \in 1..Len(m) : h[i + k - 1] = m[k]

\* the smallest position p in lo..hi with h[p] = a and h[p+1] = b, or 0
FirstPair(h, lo, hi, a, b) ==
    IF \E p \in lo..hi : h[p] = a /\ h[p + 1] = b
    THEN CHOOSE p \in lo..hi :
             /\ h[p] = a /\ h[p + 1] = b
             /\ \A q \in lo..(p - 1) : ~(h[q] = a /\ h[q + 1] = b)
    ELSE 0

\* re.findall(r"68.*?16", h): leftmost, non-greedy, non-overlapping matches
\* of the digits 6 8 ... 1 6, found on the hex digits (not on bytes)
RECURSIVE FindAllFrom(_, _)
FindAllFrom(h, from) ==
    LET s == FirstPair(h, from, Len(h) - 1, 6, 8)
    IN  IF s = 0 THEN <<>>
        ELSE LET e == FirstPair(h, s + 2, Len(h) - 1, 1, 6)
             IN  IF e = 0 THEN <<>>
                 ELSE <<SubSeq(h, s, e + 1)>> \o FindAllFrom(h, e + 2)

re_findall(h) == FindAllFrom(h, 1)

(***************************************************************************)
(* CRC-CCITT (XModem), Trame.calculate_crc                                 *)
(***************************************************************************)
RECURSIVE BitXor(_, _)
BitXor(a, b) ==
    IF a = 0 THEN b
    ELSE IF b = 0 THEN a
    ELSE (((a % 2) + (b % 2)) % 2) + 2 * BitXor(a \div 2, b \div 2)

\* the inner loop without the polynomial
CrcShiftOnly(crc) == (crc * 2) % 65536
\* one pass of the inner loop: shift left, xor the polynomial when the top
\* bit was set, keep 16 bits
CrcShift(crc) ==
    IF crc >= 32768 THEN BitXor((crc * 2) % 65536, CrcPoly)
    ELSE (crc * 2) % 65536

\* the inner loop: n passes
RECURSIVE CrcShifts(_, _)
CrcShifts(crc, n) ==
    IF n = 0 THEN crc ELSE CrcShifts(CrcShift(crc), n - 1)

\* the outer loop over the bytes data[lo..hi], started with crc:
\* crc ^= byte << 8, then eight passes of the inner loop
RECURSIVE CrcRange(_, _, _, _)
CrcRange(data, lo, hi, crc) ==
    IF lo > hi \/ crc < 0 THEN crc
    ELSE IF lo = hi THEN CrcShifts(BitXor(crc, data[lo] * 256), 8)
    ELSE CrcRange(data, ((lo + hi) \div 2) + 1, hi,
                  CrcRange(data, lo, (lo + hi) \div 2, crc))

CrcFrom(data, i, crc) == CrcRange(data, i, Len(data), crc)

\* the two CRC bytes, big-endian
calculate_crc(data) ==
    LET crc == CrcFrom(data, 1, 0) IN <<crc \div 256, crc % 256>>

(***************************************************************************)
(* Frame layout, Trame.build at byte level                                 *)
(***************************************************************************)
\* Trame.calculate_length: DA (2) + SA (2) + F (1) + data, little-endian
calculate_length(data) ==
    LET total == 2 + 2 + 1 + Len(data) IN <<total % 256, total \div 256>>

\* Trame.build: 68, L0 L1 SA DA F DATA, CRC over that section, 16
build(sa, da, f, data) ==
    LET mid == calculate_length(data) \o sa \o da \o <<f>> \o data
    IN  <<StartByte>> \o mid \o calculate_crc(mid) \o <<EndByte>>

\* verify(frame): the frame is long enough, starts with 68 and ends with
\* 16, its CRC bytes are the CRC of the section between them, and its
\* length field counts SA + DA + F + DATA; never raises
Verify(frame) ==
    /\ Len(frame) >= 6
    /\ frame[1] = StartByte /\ frame[Len(frame)] = EndByte
    /\ LET mid == SubSeq(frame, 2, Len(frame) - 3)
       IN  /\ calculate_crc(mid) = SubSeq(frame, Len(frame) - 2, Len(frame) - 1)
           /\ mid[1] + 256 * mid[2] = Len(mid) - 2

(***************************************************************************)
(* Trame (trame.py) on its hex-string fields.  A string is a sequence of   *)
(* hex digits 0..15 and spaces.                                            *)
(***************************************************************************)
\* the space character in a string of hex digits
Space == 16

BytesOf(bs) == [kind |-> "bytes", exc |-> "", val |-> bs]
Exception(e) == [kind |-> "exc", exc |-> e, val |-> <<>>]

\* bytes.fromhex(s): white space is skipped between bytes and nowhere
\* else, so every run of digits must have an even length
RECURSIVE fromhex(_)
fromhex(s) ==
    IF \A i \in 1..Len(s) : s[i] # Space
    THEN IF Len(s) % 2 = 0 THEN BytesOf(FromHex(s))
         ELSE Exception("ValueError")
    ELSE LET p    == CHOOSE i \in 1..Len(s) :
                         s[i] = Space /\ \A j \in 1..(i - 1) : s[j] # Space
             rest == fromhex(SubSeq(s, p + 1, Len(s)))
         IN  IF (p - 1) % 2 = 1 \/ rest.kind = "exc"
             THEN Exception("ValueError")
             ELSE BytesOf(FromHex(SubSeq(s, 1, p - 1)) \o rest.val)

\* utils.int16_to_hex: value.to_bytes(2, "little", signed=True).hex()
int16_to_hex(value) ==
    IF value > Int16Max \/ value < -Int16Max - 1 THEN Exception("OverflowError")
    ELSE LET u == value % 65536
         IN  [kind |-> "str", exc |-> "", val |-> ToHex(<<u % 256, u \div 256>>)]

\* SET_CODE = "55 53 45 52 2d 30 30 30 00 34 30 39 35 00"
SET_CODE ==
    <<5, 5, Space, 5, 3, Space, 4, 5, Space, 5, 2, Space, 2, 13, Space,
      3, 0, Space, 3, 0, Space, 3, 0, Space, 0, 0, Space, 3, 4, Space,
      3, 0, Space, 3, 9, Space, 3, 5, Space, 0, 0>>

\* the function code "29" of a write command
WriteFunction == <<2, 9>>

\* Trame.calculate_length on the data field: (L0, L1) as one string of four
\* hex digits, or the exception raised
Trame_calculate_length(field) ==
    LET b == fromhex(field)
    IN  IF b.kind = "exc" THEN b ELSE int16_to_hex(2 + 2 + 1 + Len(b.val))

\* the constructor that writes the SET_CODE prefix for every function code
Trame_init_prefixed(dst, src, fn, ack_f, prm, value_hex) ==
    LET field == SET_CODE \o <<Space>> \o prm \o <<Space>> \o value_hex
        lg    == Trame_calculate_length(field)
    IN  IF lg.kind = "exc"
        THEN [kind |-> "exc", exc |-> lg.exc, da0 |-> <<>>, da1 |-> <<>>,
              sa0 |-> <<>>, sa1 |-> <<>>, f |-> <<>>, ack_f |-> <<>>,
              data |-> <<>>,
              l0 |-> <<>>, l1 |-> <<>>]
        ELSE [kind |-> "Trame", exc |-> "",
              da0 |-> SubSeq(dst, 1, IF Len(dst) < 2 THEN Len(dst) ELSE 2),
              da1 |-> SubSeq(dst, 3, Len(dst)),
              sa0 |-> SubSeq(src, 1, IF Len(src) < 2 THEN Len(src) ELSE 2),
              sa1 |-> SubSeq(src, 3, Len(src)),
              f |-> fn, ack_f |-> ack_f, data |-> field,
              l0 |-> SubSeq(lg.val, 1, 2), l1 |-> SubSeq(lg.val, 3, 4)]
\* Trame.__init__: the attributes of the new object, or the exception raised
Trame_init(dst, src, fn, ack_f, prm, value_hex) ==
    LET field == IF fn = WriteFunction
                 THEN SET_CODE \o <<Space>> \o prm \o <<Space>> \o value_hex
                 ELSE prm
        lg    == Trame_calculate_length(field)
    IN  IF lg.kind = "exc"
        THEN [kind |-> "exc", exc |-> lg.exc, da0 |-> <<>>, da1 |-> <<>>,
              sa0 |-> <<>>, sa1 |-> <<>>, f |-> <<>>, ack_f |-> <<>>,
              data |-> <<>>,
              l0 |-> <<>>, l1 |-> <<>>]
        ELSE [kind |-> "Trame", exc |-> "",
              da0 |-> SubSeq(dst, 1, IF Len(dst) < 2 THEN Len(dst) ELSE 2),
              da1 |-> SubSeq(dst, 3, Len(dst)),
              sa0 |-> SubSeq(src, 1, IF Len(src) < 2 THEN Len(src) ELSE 2),
              sa1 |-> SubSeq(src, 3, Len(src)),
              f |-> fn, ack_f |-> ack_f, data |-> field,
              l0 |-> SubSeq(lg.val, 1, 2), l1 |-> SubSeq(lg.val, 3, 4)]

\* the fields in another order: destination before source
Trame_build_swapped(tr) ==
    LET sp == <<Space>>
        b  == fromhex(tr.l0 \o sp \o tr.l1 \o sp \o tr.da0 \o sp \o tr.da1
                      \o sp \o tr.sa0 \o sp \o tr.sa1 \o sp \o tr.f \o sp
                      \o tr.data)
    IN  IF b.kind = "exc" THEN b
        ELSE BytesOf(<<StartByte>> \o b.val \o calculate_crc(b.val)
                     \o <<EndByte>>)

\* Trame.build: the frame as bytes, or the exception raised
Trame_build(tr) ==
    LET sp == <<Space>>
        b  == fromhex(tr.l0 \o sp \o tr.l1 \o sp \o tr.sa0 \o sp \o tr.sa1
                      \o sp \o tr.da0 \o sp \o tr.da1 \o sp \o tr.f \o sp
                      \o tr.data)
    IN  IF b.kind = "exc" THEN b
        ELSE BytesOf(<<StartByte>> \o b.val \o calculate_crc(b.val)
                     \o <<EndByte>>)

(***************************************************************************)
(* Field schemas and the parameter registry, api/parameters.py             *)
(***************************************************************************)
\* a schema is the sequence of its entries in dictionary order
THERMOSTAT ==
    << [key |-> "MODE",        index |-> 29, type |-> "int"],
       [key |-> "AUTO",        index |-> 14, type |-> "int"],
       [key |-> "TEMPERATURE", index |-> 31, type |-> "float"],
       [key |-> "JOUR",        index |-> 41, type |-> "float"],
       [key |-> "NUIT",        index |-> 46, type |-> "float"],
       [key |-> "ACTUELLE",    index |-> 36, type |-> "float"],
       [key |-> "HEATING",     index |-> 27, type |-> "int"] >>

ECOMAX ==
    << [key |-> "SOURCE_PRINCIPALE",     index |-> 164, type |-> "float"],
       [key |-> "DEPART_RADIATEUR",      index |-> 169, type |-> "float"],
       [key |-> "ECS",                   index |-> 179, type |-> "float"],
       [key |-> "BALLON_TAMPON",         index |-> 189, type |-> "float"],
       [key |-> "TEMPERATURE_EXTERIEUR", index |-> 194, type |-> "float"] >>

\* dataToSearch "265535445525f78343"
MarkerThermostat == <<2, 6, 5, 5, 3, 5, 4, 4, 5, 5, 2, 5, 15, 7, 8, 3, 4, 3>>
\* dataToSearch "3130303538343230303400"
MarkerDatas ==
    <<3, 1, 3, 0, 3, 0, 3, 5, 3, 8, 3, 4, 3, 2, 3, 0, 3, 0, 3, 4, 0, 0>>

PARAMETER ==
    [ GET_THERMOSTAT |-> [dataStruct |-> THERMOSTAT,
                          dataToSearch |-> MarkerThermostat, length |-> 116],
      GET_DATAS      |-> [dataStruct |-> ECOMAX,
                          dataToSearch |-> MarkerDatas, length |-> 820] ]

\* the ack flags "a9" and "c0" as hex digits
AckA9 == <<10, 9>>
AckC0 == <<12, 0>>

(***************************************************************************)
(* Payload decoder, utils.extract_data                                     *)
(***************************************************************************)
\* the four bytes read most significant first
UnpackFloatBig(bs, idx) ==
    [sign     |-> bs[idx + 1] \div 128,
     exponent |-> 2 * (bs[idx + 1] % 128) + bs[idx + 2] \div 128,
     fraction |-> bs[idx + 4] + 256 * bs[idx + 3]
                     + 65536 * (bs[idx + 2] % 128)]
\* struct.unpack("<f", b): the IEEE-754 single read little-endian from the
\* four bytes, as its sign bit, biased exponent and 23-bit fraction
UnpackFloat(bs, idx) ==
    [sign     |-> bs[idx + 4] \div 128,
     exponent |-> 2 * (bs[idx + 4] % 128) + bs[idx + 3] \div 128,
     fraction |-> bs[idx + 1] + 256 * bs[idx + 2]
                     + 65536 * (bs[idx + 3] % 128)]

\* whether decoding entry e of a schema on bs raises (IndexError for an
\* int, struct.error for a float slice shorter than four bytes)
EntryFails(bs, e) ==
    IF e.type = "int" THEN e.index >= Len(bs) ELSE e.index + 4 > Len(bs)

\* the decoder leaving out the entries the payload is too short for
extract_data_truncating(h, schema) ==
    IF Len(h) % 2 = 1 THEN [kind |-> "exc", exc |-> "ValueError", val |-> <<>>]
    ELSE LET bs == FromHex(h)
         IN  [kind |-> "dict", exc |-> "",
              val  |-> [k \in 1..Len(schema) |->
                          IF EntryFails(bs, schema[k]) THEN 0
                          ELSE IF schema[k].type = "int"
                          THEN bs[schema[k].index + 1]
                          ELSE UnpackFloat(bs, schema[k].index)]]
\* extract_data(data, data_struct): the decoded values in schema order, or
\* the exception raised by bytes.fromhex or by the first entry that fails
extract_data(h, schema) ==
    IF Len(h) % 2 = 1 THEN [kind |-> "exc", exc |-> "ValueError", val |-> <<>>]
    ELSE LET bs  == FromHex(h)
             bad == {k \in 1..Len(schema) : EntryFails(bs, schema[k])}
         IN  IF bad # {}
             THEN LET k == CHOOSE x \in bad : \A y \in bad : x <= y
                  IN  [kind |-> "exc",
                       exc  |-> IF schema[k].type = "int" THEN "IndexError"
                                ELSE "struct.error",
                       val  |-> <<>>]
             ELSE [kind |-> "dict", exc |-> "",
                   val  |-> [k \in 1..Len(schema) |->
                               IF schema[k].type = "int"
                               THEN bs[schema[k].index + 1]
                               ELSE UnpackFloat(bs, schema[k].index)]]

(***************************************************************************)
(* What the controller may deliver to one receive call                     *)
(***************************************************************************)
MarkerBytes == FromHex(MarkerThermostat)

\* the data field of a thermostat answer: AUTO at frame offset 14, the
\* marker at 15..23, MODE at 29, TEMPERATURE at 31, ACTUELLE at 36
ThermoData(mode, withMarker) ==
    Tuple([i \in 1..47 |->
        LET j == i + 7
        IN  IF j = 14 THEN 1
            ELSE IF j \in 15..23 /\ withMarker THEN MarkerBytes[j - 14]
            ELSE IF j = 29 THEN mode
            ELSE IF j \in 31..34 THEN <<0, 0, 131, 66>>[j - 30]
            ELSE IF j \in 36..39 THEN <<0, 0, 184, 65>>[j - 35]
            ELSE 0])

\* a well-formed thermostat answer (function code c0), 58 bytes
FrameT(mode) == build(<<100, 0>>, <<32, 0>>, 192, ThermoData(mode, TRUE))
\* the same without the marker
FrameNoMarker == build(<<100, 0>>, <<32, 0>>, 192, ThermoData(2, FALSE))
\* marker present, function code a9 instead of c0
FrameWrongAck == build(<<100, 0>>, <<32, 0>>, 169, ThermoData(5, TRUE))
\* marker and c0 present, low CRC byte off by one
FrameBadCrc ==
    LET f == FrameT(4) IN [f EXCEPT ![56] = 89, ![57] = 197]
\* marker and c0 present, CRC correct, length field one too small
FrameBadLen ==
    LET d   == ThermoData(6, TRUE)
        mid == <<51, 0>> \o <<100, 0>> \o <<32, 0>> \o <<192>> \o d
    IN  <<StartByte>> \o mid \o calculate_crc(mid) \o <<EndByte>>
\* the acknowledgement of a write (function code a9), 11 bytes
FrameAck == build(<<100, 0>>, <<1, 0>>, 169, <<>>)
\* marker and c0 present, too short for the thermostat schema
FrameShort == build(<<100, 0>>, <<32, 0>>, 192, MarkerBytes)
\* the 820-byte broadcast that GET_DATAS expects: marker at offset 8,
\* the five temperatures at 164, 169, 179, 189 and 194
FrameDatas ==
    Tuple([i \in 1..820 |->
        LET j == i - 1
        IN  IF j = 0 THEN StartByte
            ELSE IF j \in 1..7 THEN <<46, 3, 1, 0, 255, 255, 8>>[j]
            ELSE IF j \in 8..18
                 THEN <<49, 48, 48, 53, 56, 52, 50, 48, 48, 52, 0>>[j - 7]
            ELSE IF j \in 164..167 THEN <<0, 0, 92, 66>>[j - 163]
            ELSE IF j \in 169..172 THEN <<0, 0, 72, 66>>[j - 168]
            ELSE IF j \in 179..182 THEN <<0, 0, 32, 66>>[j - 178]
            ELSE IF j \in 189..192 THEN <<0, 0, 240, 65>>[j - 188]
            ELSE IF j \in 194..197 THEN <<0, 0, 160, 64>>[j - 193]
            ELSE IF j = 817 THEN 136
            ELSE IF j = 818 THEN 26
            ELSE IF j = 819 THEN EndByte
            ELSE 0])

Batches ==
    << <<>>,                                 \* 1  nothing (peer closed)
       <<0, 0>>,                             \* 2  no frame
       FrameT(2),                            \* 3  one matching answer
       FrameWrongAck \o FrameT(2),           \* 4  only the second matches
       FrameT(1) \o FrameT(2),               \* 5  both match
       FrameNoMarker \o FrameWrongAck,       \* 6  two frames, none matches
       FrameBadCrc,                          \* 7
       FrameBadLen,                          \* 8
       FrameAck,                             \* 9  write acknowledged
       <<0>> \o FrameAck,                    \* 10 a stray byte, then the ack
       FrameT(2) \o FrameAck,                \* 11 another frame, then the ack
       FrameShort,                           \* 12
       <<0, 0, 0, 0, 0, 0, 0, 169>>,         \* 13 a9 at offset 7, no frame
       FrameDatas,                           \* 14 the broadcast
       SubSeq(FrameT(2), 1, 8),              \* 15 the answer cut in its header
       SubSeq(FrameT(2), 9, 58),             \* 16 ... and its rest
       SubSeq(FrameT(2), 1, 40),             \* 17 the answer cut in its data
       SubSeq(FrameT(2), 41, 58),            \* 18 ... and its rest
       SubSeq(FrameDatas, 1, 400),           \* 19 the broadcast cut in two
       SubSeq(FrameDatas, 401, 820) >>       \* 20 ... and its rest

NBatches == Len(Batches)

\* _async_recv_hex: data.hex() of the received bytes
BatchHex == Tuple([i \in 1..NBatches |-> ToHex(Batches[i])])
\* re.findall(r"68.*?16", frames_hex) of each batch
Responses == Tuple([i \in 1..NBatches |-> re_findall(BatchHex[i])])

(***************************************************************************)
(* State                                                                   *)
(*                                                                         *)
(* Tasks of one asyncio event loop share one EcoMaxClient.  A task runs    *)
(* without interruption from one suspension point (a pending sock_connect, *)
(* sock_sendall, sock_recv or sleep) to the next: running is the task that *)
(* holds the loop, NoTask while every task is parked.  A task's stack      *)
(* holds one frame per coroutine it is inside, innermost last.             *)
(***************************************************************************)
\* the coordinator's polling task and the climate entity's task
Coordinator == "coordinator"
Climate == "climate"
Tasks == {Coordinator, Climate}
NoTask == "none"
\* the EcoMaxClient objects: the one of the config entry, and another one
Instances == {"client", "other"}

None == [kind |-> "None", exc |-> "", val |-> <<>>]
EmptyDict == [kind |-> "dict", exc |-> "", val |-> <<>>]

VARIABLES
    socket,     \* per instance: EcoMaxClient._socket, 0 for None, else the
                \* socket object
    opened,     \* socket objects created so far, numbered 1..opened
    closed,     \* the socket objects that were closed
    apiSocket,  \* EcoMAXAPI.socket: "None", "unconnected" or "connected"
    running,    \* the task holding the event loop
    stack,      \* per task: the coroutine frames [fn, pc]
    exc,        \* per task: the exception being propagated, "" for none
    ret,        \* per task: the value of the call that returned last
    outcome,    \* per task: how its operation ended
    calls,      \* per task: the coroutines its operation awaited, in order
    err,        \* per task: the first exception raised in its operation
    tries,      \* per task: the loop counter (attempts / tries)
    maxTries,   \* per task: the max_tries argument
    param,      \* per task: the param argument of listen_frame
    sock,       \* per task: the local sock of async_connect
    rsock,      \* per task: the socket object of the pending send / receive
    pend,       \* per task: the exception a finally block re-raises
    polled,     \* per task: the local data of _async_update_data
    op,         \* per task: the operation it was started with
    nops,       \* per task: operations started so far
    sends,      \* per task: sock_sendall calls of the operation
    recvs,      \* per task: completed sock_recv calls of the operation
    batch,      \* per task: the batch received last (index in Batches)
    hit,        \* per task: the candidate accepted in that batch, 0 for none
    failed,     \* per task: a send or receive of the operation failed
    silent,     \* the controller accepts connections and never sends
    response,   \* DummyClient._response: what the client stub answers
    inst,       \* per task: the EcoMaxClient instance it was given
    published,  \* coordinator.data: what the last cycle that returned gave
    job,        \* the arguments a codec function is called with
    trame,      \* the Trame object: its attributes
    built,      \* what Trame.build() returned last
    flipped,    \* a built frame with one bit of its middle section flipped
    split,      \* the candidates re.findall returned, and how often it ran
    reading,    \* what extract_data returned
    conv,       \* a preset lookup and the lookup of its result the other way
    preset,     \* EcomaxThermostat._preset_mode
    auto,       \* EcomaxThermostat.auto
    target,     \* EcomaxThermostat._target_temperature, None at first
    current,    \* EcomaxThermostat._current_temperature, "" for None
    heating,    \* EcomaxThermostat.heating
    hvac,       \* EcomaxThermostat._hvac_mode
    arg,        \* per task: the preset_hex / code argument of the client call
    sentFrames  \* per task: the frames its operation handed to async_send

ctl  == <<stack, running, exc, ret, outcome, calls, err>>
cli  == <<socket, opened, closed, apiSocket>>
loc  == <<tries, maxTries, param, sock, rsock, pend, polled>>
hist == <<op, nops, sends, recvs, batch, hit, failed>>
codec == <<job, trame, built, flipped, split, reading, conv>>
ent  == <<preset, auto, target, current, heating, hvac>>
wiring == <<response, inst>>
env  == <<silent, wiring, published, codec, ent, arg, sentFrames>>
vars == <<ctl, cli, loc, hist, env>>

Top(t) == stack[t][Len(stack[t])]
SetPc(st, pc) == [st EXCEPT ![Len(st)].pc = pc]
Pop(st) == SubSeq(st, 1, Len(st) - 1)

\* the frame is in a try block whose except / finally clause takes over
Handles(fr) ==
    \/ fr.fn = "_async_update_data"
    \/ fr.fn = "async_change_preset" /\ fr.pc = "finally"
    \/ fr.fn = "async_set_setpoint" /\ fr.pc = "finally"
    \/ fr.fn = "async_get_thermostat" /\ fr.pc = "finally"

\* drop the frames an exception passes through
RECURSIVE Unwind(_)
Unwind(st) ==
    IF st = <<>> \/ Handles(st[Len(st)]) THEN st ELSE Unwind(Pop(st))

At(t, fn, pc) == stack[t] # <<>> /\ Top(t).fn = fn /\ Top(t).pc = pc
\* task t holds the loop and is about to run the code at fn:pc
Runs(t, fn, pc) == running = t /\ exc[t] = "" /\ At(t, fn, pc)
\* task t is suspended in fn at pc and the loop is free to resume it
Parked(t, fn, pc) == running = NoTask /\ At(t, fn, pc)

\* continue in the same coroutine
Goto(t, pc) ==
    /\ stack' = [stack EXCEPT ![t] = SetPc(@, pc)]
    /\ running' = t
    /\ UNCHANGED <<exc, ret, outcome, calls, err>>

\* suspend: the loop is free for another task
Park(t, pc) ==
    /\ stack' = [stack EXCEPT ![t] = SetPc(@, pc)]
    /\ running' = NoTask
    /\ UNCHANGED <<exc, ret, outcome, calls, err>>

\* await fn(...), continuing at cont when it returns
Call(t, fn, cont) ==
    /\ stack' = [stack EXCEPT
                   ![t] = Append(SetPc(@, cont), [fn |-> fn, pc |-> "entry"])]
    /\ running' = t
    /\ calls' = IF Len(stack[t]) = 1
                THEN [calls EXCEPT ![t] = Append(@, fn)]
                ELSE calls
    /\ UNCHANGED <<exc, ret, outcome, err>>

\* return v to the caller; the operation ends when no caller is left
Return(t, v) ==
    LET st == Pop(stack[t])
    IN  /\ stack' = [stack EXCEPT ![t] = st]
        /\ ret' = [ret EXCEPT ![t] = v]
        /\ exc' = [exc EXCEPT ![t] = ""]
        /\ running' = IF st = <<>> THEN NoTask ELSE t
        /\ outcome' = IF st = <<>>
                      THEN [outcome EXCEPT ![t] = [status |-> "returned",
                                                   val |-> v, exc |-> ""]]
                      ELSE outcome
        /\ UNCHANGED <<calls, err>>

\* raise e out of the current coroutine, up to the nearest handler
Raise(t, e) ==
    LET st == Unwind(Pop(stack[t]))
    IN  /\ stack' = [stack EXCEPT ![t] = st]
        /\ ret' = ret
        /\ exc' = [exc EXCEPT ![t] = IF st = <<>> THEN "" ELSE e]
        /\ running' = IF st = <<>> THEN NoTask ELSE t
        /\ outcome' = IF st = <<>>
                      THEN [outcome EXCEPT ![t] = [status |-> "raised",
                                                   val |-> None, exc |-> e]]
                      ELSE outcome
        /\ calls' = calls
        /\ err' = IF err[t] = "" THEN [err EXCEPT ![t] = e] ELSE err

\* the client, the coordinator and the controller before the first call
InitClient ==
    /\ socket = [i \in Instances |-> 0]
    /\ opened = 0 /\ closed = {} /\ apiSocket = "None"
    /\ running = NoTask
    /\ stack = [t \in Tasks |-> <<>>]
    /\ exc = [t \in Tasks |-> ""]
    /\ ret = [t \in Tasks |-> None]
    /\ outcome = [t \in Tasks |-> [status |-> "idle", val |-> None, exc |-> ""]]
    /\ calls = [t \in Tasks |-> <<>>]
    /\ err = [t \in Tasks |-> ""]
    /\ tries = [t \in Tasks |-> 0]
    /\ maxTries = [t \in Tasks |-> 0]
    /\ param = [t \in Tasks |-> ""]
    /\ sock = [t \in Tasks |-> 0]
    /\ rsock = [t \in Tasks |-> 0]
    /\ pend = [t \in Tasks |-> ""]
    /\ polled = [t \in Tasks |-> None]
    /\ op = [t \in Tasks |-> ""]
    /\ nops = [t \in Tasks |-> 0]
    /\ sends = [t \in Tasks |-> 0]
    /\ recvs = [t \in Tasks |-> 0]
    /\ batch = [t \in Tasks |-> 0]
    /\ hit = [t \in Tasks |-> 0]
    /\ failed = [t \in Tasks |-> FALSE]
    /\ silent \in BOOLEAN
    /\ published = None
    /\ preset = "Calendrier" /\ auto = 1 /\ target = None
    /\ current = "" /\ heating = 0 /\ hvac = "auto"
    /\ arg = [t \in Tasks |-> <<>>]
    /\ sentFrames = [t \in Tasks |-> <<>>]

\* no codec function has been called
NoJob ==
    [fn |-> "", args |-> [dst |-> <<>>, src |-> <<>>, fn |-> <<>>,
                          ack_f |-> <<>>, prm |-> <<>>, value_hex |-> <<>>],
     buf |-> <<>>, sch |-> <<>>]
NoTrame ==
    [kind |-> "None", exc |-> "", da0 |-> <<>>, da1 |-> <<>>, sa0 |-> <<>>,
     sa1 |-> <<>>, f |-> <<>>, ack_f |-> <<>>, data |-> <<>>, l0 |-> <<>>,
     l1 |-> <<>>]
NoSplit == [runs |-> 0, val |-> <<>>, prev |-> <<>>]
NoConv ==
    [table |-> "", from |-> "", dflt |-> "", code |-> 0 - 1, name |-> "",
     hex |-> <<>>, back |-> "", n |-> 0]

InitCodecIdle ==
    /\ trame = NoTrame /\ built = None /\ flipped = None
    /\ split = NoSplit /\ reading = None /\ conv = NoConv

\* every task of the integration is given the one client of the config entry
OneClient == response = None /\ inst = [t \in Tasks |-> "client"]

Init == InitClient /\ OneClient /\ job = NoJob /\ InitCodecIdle

(***************************************************************************)
(* Starting an operation: a task of the integration calls into the client  *)
(***************************************************************************)
\* what a direct caller of the client passes: the preset eco to
\* async_change_preset, the register 012001 to async_set_setpoint
DirectArg(fn) ==
    IF fn = "async_change_preset" THEN <<0, 1>>
    ELSE IF fn = "async_set_setpoint" THEN <<0, 1, 2, 0, 0, 1>>
    ELSE <<>>

Start(t, fn, mt, p) ==
    /\ running = NoTask /\ stack[t] = <<>>
    /\ nops[Coordinator] + nops[Climate] < MaxOps
    /\ stack' = [stack EXCEPT ![t] = <<[fn |-> fn, pc |-> "entry"]>>]
    /\ running' = t
    /\ exc' = [exc EXCEPT ![t] = ""]
    /\ ret' = [ret EXCEPT ![t] = None]
    /\ outcome' = [outcome EXCEPT
                     ![t] = [status |-> "running", val |-> None, exc |-> ""]]
    /\ calls' = [calls EXCEPT ![t] = <<>>]
    /\ err' = [err EXCEPT ![t] = ""]
    /\ tries' = [tries EXCEPT ![t] = 0]
    /\ maxTries' = [maxTries EXCEPT ![t] = mt]
    /\ param' = [param EXCEPT ![t] = p]
    /\ op' = [op EXCEPT ![t] = fn]
    /\ nops' = [nops EXCEPT ![t] = @ + 1]
    /\ sends' = [sends EXCEPT ![t] = 0]
    /\ recvs' = [recvs EXCEPT ![t] = 0]
    /\ batch' = [batch EXCEPT ![t] = 0]
    /\ hit' = [hit EXCEPT ![t] = 0]
    /\ failed' = [failed EXCEPT ![t] = FALSE]
    /\ sock' = [sock EXCEPT ![t] = 0]
    /\ rsock' = [rsock EXCEPT ![t] = 0]
    /\ pend' = [pend EXCEPT ![t] = ""]
    /\ polled' = [polled EXCEPT ![t] = None]
    /\ arg' = [arg EXCEPT ![t] = DirectArg(fn)]
    /\ sentFrames' = [sentFrames EXCEPT ![t] = <<>>]
    /\ UNCHANGED <<cli, silent, wiring, published, codec, ent>>

StartConnect(t) == Start(t, "async_connect", 0, "")
StartDisconnect(t) == Start(t, "async_disconnect", 0, "")
StartSend(t) == Start(t, "async_send", 0, "")
StartRequest(t) == \E mt \in 1..MaxTries : Start(t, "async_request", mt, "")
StartListen(t) ==
    \E mt \in 1..MaxTries :
        \E p \in {"GET_DATAS", "GET_THERMOSTAT", "GET_NOTHING"} :
            Start(t, "listen_frame", mt, p)
StartPoll(t) == Start(t, "_async_update_data", 0, "")
StartChangePreset(t) == Start(t, "async_change_preset", 0, "")
\* the temperature argument: a number, a number too large for a 32 bit
\* float, or something float() rejects
Temperatures == {"21.5", "1e39", "abc"}
StartSetSetpoint(t) ==
    \E temperature \in Temperatures :
        Start(t, "async_set_setpoint", 0, temperature)
StartGetThermostat(t) == Start(t, "async_get_thermostat", 0, "")

(***************************************************************************)
(* EcoMaxClient.async_connect                                              *)
(***************************************************************************)
\* lines 88-94: return at once when a socket is held, else create one and
\* wait for sock_connect
Connect_entry(t) ==
    /\ Runs(t, "async_connect", "entry")
    /\ IF socket[inst[t]] # 0
       THEN /\ Return(t, None)
            /\ UNCHANGED <<opened, sock>>
       ELSE /\ opened < MaxSockets
            /\ opened' = opened + 1
            /\ sock' = [sock EXCEPT ![t] = opened + 1]
            /\ Park(t, "connecting")
    /\ UNCHANGED <<socket, closed, apiSocket, tries, maxTries, param, rsock,
                   pend, polled, hist, env>>

\* line 98: the connection is up, keep the socket
Connect_done(t) ==
    /\ Parked(t, "async_connect", "connecting")
    /\ socket' = [socket EXCEPT ![inst[t]] = sock[t]]
    /\ Return(t, None)
    /\ UNCHANGED <<opened, closed, apiSocket, loc, hist, env>>

\* the failed socket is left open
Connect_fail_open(t) ==
    /\ Parked(t, "async_connect", "connecting")
    /\ closed' = closed
    /\ Raise(t, "ConnectionError")
    /\ UNCHANGED <<socket, opened, apiSocket, loc, hist, env>>
\* lines 95-97: the connection failed, close the socket and re-raise
Connect_fail(t) ==
    /\ Parked(t, "async_connect", "connecting")
    /\ closed' = closed \cup {sock[t]}
    /\ Raise(t, "ConnectionError")
    /\ UNCHANGED <<socket, opened, apiSocket, loc, hist, env>>

(***************************************************************************)
(* EcoMaxClient.async_disconnect                                           *)
(***************************************************************************)
\* async_disconnect on a _socket attribute that the class holds for all
\* its instances
Disconnect_entry_shared(t) ==
    /\ Runs(t, "async_disconnect", "entry")
    /\ closed' = closed \cup ({socket[i] : i \in Instances} \ {0})
    /\ socket' = [i \in Instances |-> 0]
    /\ Return(t, None)
    /\ UNCHANGED <<opened, apiSocket, loc, hist, env>>
\* lines 105-110: close the socket that is held, then hold none
Disconnect_entry(t) ==
    /\ Runs(t, "async_disconnect", "entry")
    /\ closed' = IF socket[inst[t]] # 0 THEN closed \cup {socket[inst[t]]}
                 ELSE closed
    /\ socket' = [socket EXCEPT ![inst[t]] = 0]
    /\ Return(t, None)
    /\ UNCHANGED <<opened, apiSocket, loc, hist, env>>

\* the attribute is not cleared when close() raises
Disconnect_close_keep(t) ==
    /\ Runs(t, "async_disconnect", "entry")
    /\ socket[inst[t]] # 0
    /\ closed' = closed \cup {socket[inst[t]]}
    /\ socket' = socket
    /\ Raise(t, "OSError")
    /\ UNCHANGED <<opened, apiSocket, loc, hist, env>>

\* lines 107-110: close() raises, the finally clause still clears the
\* attribute and the error leaves async_disconnect
Disconnect_close_fail(t) ==
    /\ Runs(t, "async_disconnect", "entry")
    /\ socket[inst[t]] # 0
    /\ closed' = closed \cup {socket[inst[t]]}
    /\ socket' = [socket EXCEPT ![inst[t]] = 0]
    /\ Raise(t, "OSError")
    /\ UNCHANGED <<opened, apiSocket, loc, hist, env>>

(***************************************************************************)
(* EcoMaxClient.async_send                                                 *)
(***************************************************************************)
\* the loop test off by one: one attempt too many
SendMoreOff(n) == n <= SendMaxAttempts

\* line 146: while attempts < max_attempts
SendMore(n) == n < SendMaxAttempts

\* line 150: the test made on the whole received hex string
SendAcked(h, ack) ==
    Len(h) > 0 /\ Len(h) >= 16 /\ h[15] = ack[1] /\ h[16] = ack[2]

\* lines 143-145
Send_entry(t) ==
    /\ Runs(t, "async_send", "entry")
    /\ IF socket[inst[t]] = 0
       THEN Raise(t, "AssertionError") /\ UNCHANGED tries
       ELSE Goto(t, "loop") /\ tries' = [tries EXCEPT ![t] = 0]
    /\ UNCHANGED <<cli, maxTries, param, sock, rsock, pend, polled, hist, env>>

\* lines 146-147 and 156: send the frame once more, or give up and return
Send_loop(t) ==
    /\ Runs(t, "async_send", "loop")
    /\ IF SendMore(tries[t])
       THEN IF socket[inst[t]] = 0
            THEN Raise(t, "AttributeError") /\ UNCHANGED <<sends, rsock>>
            ELSE /\ sends' = [sends EXCEPT ![t] = @ + 1]
                 /\ rsock' = [rsock EXCEPT ![t] = socket[inst[t]]]
                 /\ Park(t, "sending")
       ELSE Return(t, None) /\ UNCHANGED <<sends, rsock>>
    /\ UNCHANGED <<cli, tries, maxTries, param, sock, pend, polled,
                   op, nops, recvs, batch, hit, failed, env>>

\* line 147 done, line 148: _async_recv_hex asserts and starts to receive
Send_sent(t) ==
    /\ Parked(t, "async_send", "sending")
    /\ IF socket[inst[t]] = 0
       THEN Raise(t, "AssertionError") /\ UNCHANGED rsock
       ELSE rsock' = [rsock EXCEPT ![t] = socket[inst[t]]] /\ Park(t, "receiving")
    /\ UNCHANGED <<cli, tries, maxTries, param, sock, pend, polled, hist, env>>

\* line 147 raises
Send_sent_fail(t) ==
    /\ Parked(t, "async_send", "sending")
    /\ failed' = [failed EXCEPT ![t] = TRUE]
    /\ Raise(t, "OSError")
    /\ UNCHANGED <<cli, loc, op, nops, sends, recvs, batch, hit, env>>

\* lines 148-155: a batch arrived
Send_recv(t, i) ==
    /\ Parked(t, "async_send", "receiving")
    /\ ~silent /\ rsock[t] \notin closed
    /\ recvs' = [recvs EXCEPT ![t] = @ + 1]
    /\ batch' = [batch EXCEPT ![t] = i]
    /\ IF SendAcked(BatchHex[i], AckA9)
       THEN /\ hit' = [hit EXCEPT ![t] = 1]
            /\ Return(t, None)
            /\ UNCHANGED tries
       ELSE /\ hit' = [hit EXCEPT ![t] = 0]
            /\ tries' = [tries EXCEPT ![t] = @ + 1]
            /\ Park(t, "sleeping")
    /\ UNCHANGED <<cli, maxTries, param, sock, rsock, pend, polled,
                   op, nops, sends, failed, env>>

\* line 148 raises: the peer reset the connection, or the socket was closed
Send_recv_fail(t) ==
    /\ Parked(t, "async_send", "receiving")
    /\ ~silent \/ rsock[t] \in closed
    /\ failed' = [failed EXCEPT ![t] = TRUE]
    /\ Raise(t, "OSError")
    /\ UNCHANGED <<cli, loc, op, nops, sends, recvs, batch, hit, env>>

\* line 155: the pause is over
Send_wake(t) ==
    /\ Parked(t, "async_send", "sleeping")
    /\ Goto(t, "loop")
    /\ UNCHANGED <<cli, loc, hist, env>>

(***************************************************************************)
(* EcoMaxClient.async_request                                              *)
(* (called as async_get_thermostat does: THERMOSTAT, its marker, "c0")     *)
(***************************************************************************)
\* the loop test off by one: one try too many
RequestMoreOff(n, max) == n <= max

\* line 203: while tries < max_tries
RequestMore(n, max) == n < max

\* line 212: the ack flag at hex positions 14:16 of a candidate
AckAt(resp, ack) == Len(resp) >= 16 /\ resp[15] = ack[1] /\ resp[16] = ack[2]

\* a Python slice h[lo:hi] of a string
HexSlice(h, lo, hi) ==
    SubSeq(h, lo + 1, IF hi < Len(h) THEN hi ELSE Len(h))

\* api.py line 86: the candidate is not skipped for its ack flag
Api_acked(resp, ack) == ~(Len(resp) < 16 \/ HexSlice(resp, 14, 16) # ack)

\* communication.py lines 46-53, Communication.request: ack_received
Comm_request_acked(resp, ack) ==
    Len(resp) >= 14 /\ HexSlice(resp, 14, 16) = ack /\ Len(resp) = 116

\* communication.py lines 77-85, Communication.send: ack_received
Comm_send_acked(h, ack) ==
    Len(h) > 0 /\ Len(h) >= 14 /\ HexSlice(h, 12, 14) = ack
\* a for loop that keeps the last candidate that passes, not the first
RequestScanLast(resps, k, ack, marker) ==
    LET M == {j \in k..Len(resps) :
                 AckAt(resps[j], ack) /\ Contains(resps[j], marker)}
    IN  IF M = {} THEN 0 ELSE CHOOSE j \in M : \A x \in M : x <= j

\* lines 210-214: the for loop; the index of the candidate it returns on,
\* 0 when it runs to the end
RECURSIVE RequestScan(_, _, _, _)
RequestScan(resps, k, ack, marker) ==
    IF k > Len(resps) THEN 0
    ELSE IF AckAt(resps[k], ack) /\ Contains(resps[k], marker) THEN k
    ELSE RequestScan(resps, k + 1, ack, marker)

\* lines 201-202
Request_entry(t) ==
    /\ Runs(t, "async_request", "entry")
    /\ IF socket[inst[t]] = 0
       THEN Raise(t, "AssertionError") /\ UNCHANGED tries
       ELSE Goto(t, "loop") /\ tries' = [tries EXCEPT ![t] = 0]
    /\ UNCHANGED <<cli, maxTries, param, sock, rsock, pend, polled, hist, env>>

\* lines 203-204 and 216-219: send the frame once more, or return None
Request_loop(t) ==
    /\ Runs(t, "async_request", "loop")
    /\ IF RequestMore(tries[t], maxTries[t])
       THEN IF socket[inst[t]] = 0
            THEN Raise(t, "AttributeError") /\ UNCHANGED <<sends, rsock>>
            ELSE /\ sends' = [sends EXCEPT ![t] = @ + 1]
                 /\ rsock' = [rsock EXCEPT ![t] = socket[inst[t]]]
                 /\ Park(t, "sending")
       ELSE Return(t, None) /\ UNCHANGED <<sends, rsock>>
    /\ UNCHANGED <<cli, tries, maxTries, param, sock, pend, polled,
                   op, nops, recvs, batch, hit, failed, env>>

\* line 204 done, line 206: sleep
Request_sent(t) ==
    /\ Parked(t, "async_request", "sending")
    /\ Park(t, "sleeping")
    /\ UNCHANGED <<cli, loc, hist, env>>

\* line 204 raises
Request_sent_fail(t) ==
    /\ Parked(t, "async_request", "sending")
    /\ failed' = [failed EXCEPT ![t] = TRUE]
    /\ Raise(t, "OSError")
    /\ UNCHANGED <<cli, loc, op, nops, sends, recvs, batch, hit, env>>

\* line 207: _async_recv_hex asserts and starts to receive
Request_wake(t) ==
    /\ Parked(t, "async_request", "sleeping")
    /\ IF socket[inst[t]] = 0
       THEN Raise(t, "AssertionError") /\ UNCHANGED rsock
       ELSE rsock' = [rsock EXCEPT ![t] = socket[inst[t]]] /\ Park(t, "receiving")
    /\ UNCHANGED <<cli, tries, maxTries, param, sock, pend, polled, hist, env>>

\* lines 207-215: a batch arrived; split it, return the decode of the
\* first candidate that passes, else count the try
Request_recv(t, i) ==
    /\ Parked(t, "async_request", "receiving")
    /\ ~silent /\ rsock[t] \notin closed
    /\ recvs' = [recvs EXCEPT ![t] = @ + 1]
    /\ batch' = [batch EXCEPT ![t] = i]
    /\ LET k == RequestScan(Responses[i], 1, AckC0, MarkerThermostat)
       IN  /\ hit' = [hit EXCEPT ![t] = k]
           /\ IF k # 0
              THEN LET r == extract_data(Responses[i][k], THERMOSTAT)
                   IN  /\ IF r.kind = "exc" THEN Raise(t, r.exc)
                          ELSE Return(t, r)
                       /\ UNCHANGED tries
              ELSE /\ tries' = [tries EXCEPT ![t] = @ + 1]
                   /\ Goto(t, "loop")
    /\ UNCHANGED <<cli, maxTries, param, sock, rsock, pend, polled,
                   op, nops, sends, failed, env>>

\* a receive error that is swallowed: the try is counted and the loop goes on
Request_recv_retry(t) ==
    /\ Parked(t, "async_request", "receiving")
    /\ ~silent \/ rsock[t] \in closed
    /\ failed' = [failed EXCEPT ![t] = TRUE]
    /\ tries' = [tries EXCEPT ![t] = @ + 1]
    /\ Goto(t, "loop")
    /\ UNCHANGED <<cli, maxTries, param, sock, rsock, pend, polled,
                   op, nops, sends, recvs, batch, hit, env>>

\* line 207 raises
Request_recv_fail(t) ==
    /\ Parked(t, "async_request", "receiving")
    /\ ~silent \/ rsock[t] \in closed
    /\ failed' = [failed EXCEPT ![t] = TRUE]
    /\ Raise(t, "OSError")
    /\ UNCHANGED <<cli, loc, op, nops, sends, recvs, batch, hit, env>>

(***************************************************************************)
(* EcoMaxClient.listen_frame                                               *)
(***************************************************************************)
\* the for loop without the length test
RECURSIVE ListenScanAnyLength(_, _, _, _)
ListenScanAnyLength(frames, k, expected_hex_length, marker) ==
    IF k > Len(frames) THEN 0
    ELSE IF Len(marker) > 0 /\ ~Contains(frames[k], marker)
         THEN ListenScanAnyLength(frames, k + 1, expected_hex_length, marker)
    ELSE k
\* lines 350-357: the for loop; the index of the candidate it returns on
RECURSIVE ListenScan(_, _, _, _)
ListenScan(frames, k, expected_hex_length, marker) ==
    IF k > Len(frames) THEN 0
    ELSE IF Len(frames[k]) # expected_hex_length
         THEN ListenScan(frames, k + 1, expected_hex_length, marker)
    ELSE IF Len(marker) > 0 /\ ~Contains(frames[k], marker)
         THEN ListenScan(frames, k + 1, expected_hex_length, marker)
    ELSE k

\* the lookup without the test of lines 325-327: PARAMETER[param] raises
Listen_entry_unchecked(t) ==
    /\ Runs(t, "listen_frame", "entry")
    /\ IF param[t] \notin DOMAIN PARAMETER
       THEN Raise(t, "KeyError") /\ UNCHANGED tries
       ELSE Goto(t, "loop") /\ tries' = [tries EXCEPT ![t] = 0]
    /\ UNCHANGED <<cli, maxTries, param, sock, rsock, pend, polled, hist, env>>
\* lines 325-343
Listen_entry(t) ==
    /\ Runs(t, "listen_frame", "entry")
    /\ IF param[t] \notin DOMAIN PARAMETER
       THEN Return(t, None) /\ UNCHANGED tries
       ELSE Goto(t, "loop") /\ tries' = [tries EXCEPT ![t] = 0]
    /\ UNCHANGED <<cli, maxTries, param, sock, rsock, pend, polled, hist, env>>

\* the loop test off by one: one receive too many
ListenMoreOff(n, max) == n <= max

\* line 344: while tries < max_tries
ListenMore(n, max) == n < max

\* lines 344-346 and 359-362
Listen_loop(t) ==
    /\ Runs(t, "listen_frame", "loop")
    /\ IF ListenMore(tries[t], maxTries[t])
       THEN Call(t, "async_connect", "connected")
       ELSE Return(t, None)
    /\ UNCHANGED <<cli, loc, hist, env>>

\* a frame is written before each receive
Listen_connected_probe(t) ==
    /\ Runs(t, "listen_frame", "connected")
    /\ IF socket[inst[t]] = 0
       THEN Raise(t, "AssertionError") /\ UNCHANGED <<rsock, sends>>
       ELSE /\ rsock' = [rsock EXCEPT ![t] = socket[inst[t]]]
            /\ sends' = [sends EXCEPT ![t] = @ + 1]
            /\ Park(t, "receiving")
    /\ UNCHANGED <<cli, tries, maxTries, param, sock, pend, polled,
                   op, nops, recvs, batch, hit, failed, env>>
\* line 347: _async_recv_hex asserts and starts to receive
Listen_connected(t) ==
    /\ Runs(t, "listen_frame", "connected")
    /\ IF socket[inst[t]] = 0
       THEN Raise(t, "AssertionError") /\ UNCHANGED rsock
       ELSE rsock' = [rsock EXCEPT ![t] = socket[inst[t]]] /\ Park(t, "receiving")
    /\ UNCHANGED <<cli, tries, maxTries, param, sock, pend, polled, hist, env>>

\* lines 347-358: a batch arrived
Listen_recv(t, i) ==
    /\ Parked(t, "listen_frame", "receiving")
    /\ ~silent /\ rsock[t] \notin closed
    /\ recvs' = [recvs EXCEPT ![t] = @ + 1]
    /\ batch' = [batch EXCEPT ![t] = i]
    /\ LET info == PARAMETER[param[t]]
           k    == ListenScan(Responses[i], 1, info.length * 2,
                              info.dataToSearch)
       IN  /\ hit' = [hit EXCEPT ![t] = k]
           /\ IF k # 0
              THEN LET r == extract_data(Responses[i][k], info.dataStruct)
                   IN  /\ IF r.kind = "exc" THEN Raise(t, r.exc)
                          ELSE Return(t, r)
                       /\ UNCHANGED tries
              ELSE /\ tries' = [tries EXCEPT ![t] = @ + 1]
                   /\ Goto(t, "loop")
    /\ UNCHANGED <<cli, maxTries, param, sock, rsock, pend, polled,
                   op, nops, sends, failed, env>>

\* line 347 raises
Listen_recv_fail(t) ==
    /\ Parked(t, "listen_frame", "receiving")
    /\ ~silent \/ rsock[t] \in closed
    /\ failed' = [failed EXCEPT ![t] = TRUE]
    /\ Raise(t, "OSError")
    /\ UNCHANGED <<cli, loc, op, nops, sends, recvs, batch, hit, env>>

(***************************************************************************)
(* EcoMaxDataUpdateCoordinator._async_update_data                          *)
(***************************************************************************)
\* line 64
Poll_entry(t) ==
    /\ Runs(t, "_async_update_data", "entry")
    /\ Call(t, "async_connect", "connected")
    /\ UNCHANGED <<cli, loc, hist, env>>

\* line 65: listen_frame("GET_DATAS") with the default max_tries
Poll_connected(t) ==
    /\ Runs(t, "_async_update_data", "connected")
    /\ param' = [param EXCEPT ![t] = "GET_DATAS"]
    /\ maxTries' = [maxTries EXCEPT ![t] = ListenDefaultMaxTries]
    /\ Call(t, "listen_frame", "listened")
    /\ UNCHANGED <<cli, tries, sock, rsock, pend, polled, hist, env>>

\* the cycle returns without disconnecting
Poll_listened_skip(t) ==
    /\ Runs(t, "_async_update_data", "listened")
    /\ polled' = [polled EXCEPT ![t] = ret[t]]
    /\ Goto(t, "disconnected")
    /\ UNCHANGED <<cli, tries, maxTries, param, sock, rsock, pend, hist, env>>
\* lines 65-68
Poll_listened(t) ==
    /\ Runs(t, "_async_update_data", "listened")
    /\ polled' = [polled EXCEPT ![t] = ret[t]]
    /\ Call(t, "async_disconnect", "disconnected")
    /\ UNCHANGED <<cli, tries, maxTries, param, sock, rsock, pend, hist, env>>

\* line 69: data or {}
DataOrEmpty(d) == IF d.kind = "None" \/ d.val = <<>> THEN EmptyDict ELSE d

\* line 69: return data or {}; the value returned is what the coordinator
\* publishes as its data
Poll_disconnected(t) ==
    /\ Runs(t, "_async_update_data", "disconnected")
    /\ Return(t, DataOrEmpty(polled[t]))
    /\ published' = DataOrEmpty(polled[t])
    /\ UNCHANGED <<cli, loc, hist, silent, wiring, codec, ent, arg,
                   sentFrames>>

\* the except clause gives up quietly with an empty mapping
Poll_except_swallow(t) ==
    /\ running = t /\ exc[t] # ""
    /\ stack[t] # <<>> /\ Top(t).fn = "_async_update_data"
    /\ Return(t, EmptyDict)
    /\ UNCHANGED <<cli, loc, hist, env>>
\* lines 70-73: any exception becomes UpdateFailed
Poll_except(t) ==
    /\ running = t /\ exc[t] # ""
    /\ stack[t] # <<>> /\ Top(t).fn = "_async_update_data"
    /\ Raise(t, "UpdateFailed")
    /\ UNCHANGED <<cli, loc, hist, env>>

(***************************************************************************)
(* EcoMaxClient.async_change_preset                                        *)
(***************************************************************************)
\* line 240
Preset_entry(t) ==
    /\ Runs(t, "async_change_preset", "entry")
    /\ Call(t, "async_connect", "try")
    /\ UNCHANGED <<cli, loc, hist, env>>

\* line 243: Trame("6400", "0100", "29", "a9", "011e01", preset_hex).build()
\* for each preset code
PresetFrames ==
    [h \in {<<0, k>> : k \in 0..7} |->
        Trame_build(Trame_init(<<6, 4, 0, 0>>, <<0, 1, 0, 0>>, WriteFunction,
                               AckA9,
                               <<0, 1, 1, 14, 0, 1>>, h))]
PresetFrame(t) == PresetFrames[arg[t]]

\* lines 241-245: build the frame, async_send(frame, "a9")
Preset_try(t) ==
    /\ Runs(t, "async_change_preset", "try")
    /\ IF PresetFrame(t).kind = "bytes"
       THEN /\ sentFrames' = [sentFrames EXCEPT
                                ![t] = Append(@, [frame |-> PresetFrame(t).val,
                                                  ack |-> AckA9])]
            /\ Call(t, "async_send", "finally")
       ELSE /\ stack' = [stack EXCEPT ![t] = SetPc(@, "finally")]
            /\ exc' = [exc EXCEPT ![t] = PresetFrame(t).exc]
            /\ err' = [err EXCEPT ![t] = PresetFrame(t).exc]
            /\ UNCHANGED <<running, ret, outcome, calls, sentFrames>>
    /\ UNCHANGED <<cli, loc, hist, silent, wiring, published, codec, ent, arg>>

\* the finally clause does not disconnect
Preset_finally_skip(t) ==
    /\ running = t /\ At(t, "async_change_preset", "finally")
    /\ pend' = [pend EXCEPT ![t] = exc[t]]
    /\ stack' = [stack EXCEPT ![t] = SetPc(@, "end")]
    /\ exc' = [exc EXCEPT ![t] = ""]
    /\ UNCHANGED <<running, ret, outcome, calls, err>>
    /\ UNCHANGED <<cli, tries, maxTries, param, sock, rsock, polled, hist,
                   env>>
\* lines 246-247: finally, whether async_send returned or raised
Preset_finally(t) ==
    /\ running = t /\ At(t, "async_change_preset", "finally")
    /\ pend' = [pend EXCEPT ![t] = exc[t]]
    /\ stack' = [stack EXCEPT
                   ![t] = Append(SetPc(@, "end"),
                                 [fn |-> "async_disconnect", pc |-> "entry"])]
    /\ exc' = [exc EXCEPT ![t] = ""]
    /\ calls' = IF Len(stack[t]) = 1
                THEN [calls EXCEPT ![t] = Append(@, "async_disconnect")]
                ELSE calls
    /\ UNCHANGED <<running, ret, outcome, err>>
    /\ UNCHANGED <<cli, tries, maxTries, param, sock, rsock, polled, hist,
                   env>>

\* the end of the finally block: re-raise, or return
Preset_end(t) ==
    /\ Runs(t, "async_change_preset", "end")
    /\ IF pend[t] # "" THEN Raise(t, pend[t]) ELSE Return(t, None)
    /\ UNCHANGED <<cli, loc, hist, env>>

(***************************************************************************)
(* EcoMaxClient.async_set_setpoint                                         *)
(***************************************************************************)
\* line 268: struct.pack("<f", float(temperature)); "" when it succeeds
PackFloat(temperature) ==
    IF temperature = "1e39" THEN "OverflowError"
    ELSE IF temperature = "abc" THEN "ValueError"
    ELSE ""

\* the temperatures as a number of half degrees
HalfDegrees(temperature) ==
    IF temperature = "21.5" THEN 43
    ELSE IF temperature = "19" THEN 38
    ELSE 0

\* the largest k with 2^k <= n
RECURSIVE Log2(_)
Log2(n) == IF n < 2 THEN 0 ELSE 1 + Log2(n \div 2)

\* struct.pack("<f", n / 2) for n >= 1: sign 0, biased exponent
\* 127 + k - 1 and fraction (n - 2^k) * 2^(23 - k), least significant byte
\* first
PackHalves(n) ==
    LET k    == Log2(n)
        bits == (127 + k - 1) * (2 ^ 23) + (n - 2 ^ k) * (2 ^ (23 - k))
    IN  <<bits % 256, (bits \div 256) % 256, (bits \div 65536) % 256,
          bits \div 16777216>>

\* line 268: struct.pack("<f", float(temperature)).hex()
PackHex(temperature) == ToHex(PackHalves(HalfDegrees(temperature)))

\* line 265
Setpoint_entry(t) ==
    /\ Runs(t, "async_set_setpoint", "entry")
    /\ Call(t, "async_connect", "try")
    /\ UNCHANGED <<cli, loc, hist, env>>

\* lines 268-269: the packed value and
\* Trame("6400", "0100", "29", "a9", code, value_hex).build(), for each
\* register and temperature
SetpointFrames ==
    [c \in {<<0, 1, 2, 0, 0, 1>>, <<0, 1, 2, 1, 0, 1>>}, v \in {"21.5", "19"} |->
        Trame_build(Trame_init(<<6, 4, 0, 0>>, <<0, 1, 0, 0>>, WriteFunction,
                               AckA9,
                               c, PackHex(v)))]
SetpointFrame(t) ==
    IF PackFloat(param[t]) # "" THEN Exception(PackFloat(param[t]))
    ELSE SetpointFrames[arg[t], param[t]]

\* lines 266-270: pack the value, build the frame, async_send(frame, "a9")
Setpoint_try(t) ==
    /\ Runs(t, "async_set_setpoint", "try")
    /\ IF SetpointFrame(t).kind = "bytes"
       THEN /\ sentFrames' = [sentFrames EXCEPT
                                ![t] = Append(@, [frame |-> SetpointFrame(t).val,
                                                  ack |-> AckA9])]
            /\ Call(t, "async_send", "finally")
       ELSE /\ stack' = [stack EXCEPT ![t] = SetPc(@, "finally")]
            /\ exc' = [exc EXCEPT ![t] = SetpointFrame(t).exc]
            /\ err' = [err EXCEPT ![t] = SetpointFrame(t).exc]
            /\ UNCHANGED <<running, ret, outcome, calls, sentFrames>>
    /\ UNCHANGED <<cli, loc, hist, silent, wiring, published, codec, ent, arg>>

\* lines 271-272: finally, whether the try block returned or raised
Setpoint_finally(t) ==
    /\ running = t /\ At(t, "async_set_setpoint", "finally")
    /\ pend' = [pend EXCEPT ![t] = exc[t]]
    /\ stack' = [stack EXCEPT
                   ![t] = Append(SetPc(@, "end"),
                                 [fn |-> "async_disconnect", pc |-> "entry"])]
    /\ exc' = [exc EXCEPT ![t] = ""]
    /\ calls' = IF Len(stack[t]) = 1
                THEN [calls EXCEPT ![t] = Append(@, "async_disconnect")]
                ELSE calls
    /\ UNCHANGED <<running, ret, outcome, err>>
    /\ UNCHANGED <<cli, tries, maxTries, param, sock, rsock, polled, hist,
                   env>>

\* the end of the finally block: re-raise, or return
Setpoint_end(t) ==
    /\ Runs(t, "async_set_setpoint", "end")
    /\ IF pend[t] # "" THEN Raise(t, pend[t]) ELSE Return(t, None)
    /\ UNCHANGED <<cli, loc, hist, env>>

(***************************************************************************)
(* EcoMaxClient.async_get_thermostat                                       *)
(***************************************************************************)
\* lines 36-50: the names client.py imports; THERMOSTAT is not one of them
ClientGlobals == {"asyncio", "logging", "re", "socket", "Dict", "Optional",
                  "PARAMETER", "Trame", "struct", "extract_data"}

\* line 288
Thermostat_entry(t) ==
    /\ Runs(t, "async_get_thermostat", "entry")
    /\ Call(t, "async_connect", "try")
    /\ UNCHANGED <<cli, loc, hist, env>>

\* lines 289-295: build the frame, look the marker up, then evaluate the
\* arguments of async_request(request_frame, THERMOSTAT, ..., "c0")
Thermostat_try(t) ==
    /\ Runs(t, "async_get_thermostat", "try")
    /\ IF "THERMOSTAT" \in ClientGlobals
       THEN /\ maxTries' = [maxTries EXCEPT ![t] = RequestDefaultMaxTries]
            /\ Call(t, "async_request", "finally")
       ELSE /\ stack' = [stack EXCEPT ![t] = SetPc(@, "finally")]
            /\ exc' = [exc EXCEPT ![t] = "NameError"]
            /\ err' = [err EXCEPT ![t] = "NameError"]
            /\ UNCHANGED <<running, ret, outcome, calls, maxTries>>
    /\ UNCHANGED <<cli, tries, param, sock, rsock, pend, polled, hist, env>>

\* lines 296-297: finally, whether the try block returned or raised
Thermostat_finally(t) ==
    /\ running = t /\ At(t, "async_get_thermostat", "finally")
    /\ pend' = [pend EXCEPT ![t] = exc[t]]
    /\ stack' = [stack EXCEPT
                   ![t] = Append(SetPc(@, "end"),
                                 [fn |-> "async_disconnect", pc |-> "entry"])]
    /\ exc' = [exc EXCEPT ![t] = ""]
    /\ calls' = IF Len(stack[t]) = 1
                THEN [calls EXCEPT ![t] = Append(@, "async_disconnect")]
                ELSE calls
    /\ UNCHANGED <<running, ret, outcome, err>>
    /\ UNCHANGED <<cli, tries, maxTries, param, sock, rsock, polled, hist,
                   env>>

\* the end of the finally block: re-raise, or return the reading
Thermostat_end(t) ==
    /\ Runs(t, "async_get_thermostat", "end")
    /\ IF pend[t] # "" THEN Raise(t, pend[t]) ELSE Return(t, ret[t])
    /\ UNCHANGED <<cli, loc, hist, env>>

(***************************************************************************)
(* EcoMAXAPI.request, the synchronous variant (api.py).  Its socket has a  *)
(* five second timeout; a blocking call is a point where the task waits.   *)
(* (called as the thermostat lookup does: THERMOSTAT, its marker, "c0")    *)
(***************************************************************************)
StartApiRequest(t) == Start(t, "request", 0, "")

\* line 69: while tries < max_tries
ApiMore(n) == n < ApiMaxTries

\* line 65, connect() lines 27-31: the socket is stored before it connects
Api_entry(t) ==
    /\ Runs(t, "request", "entry")
    /\ IF apiSocket = "None"
       THEN /\ apiSocket' = "unconnected"
            /\ Park(t, "connecting")
            /\ UNCHANGED tries
       ELSE /\ apiSocket' = apiSocket
            /\ tries' = [tries EXCEPT ![t] = 0]
            /\ Goto(t, "loop")
    /\ UNCHANGED <<socket, opened, closed, maxTries, param, sock, rsock, pend,
                   polled, hist, env>>

\* line 31 returned, lines 67-68
Api_connected(t) ==
    /\ Parked(t, "request", "connecting")
    /\ apiSocket' = "connected"
    /\ tries' = [tries EXCEPT ![t] = 0]
    /\ Goto(t, "loop")
    /\ UNCHANGED <<socket, opened, closed, maxTries, param, sock, rsock, pend,
                   polled, hist, env>>

\* line 31 raised: the error leaves request, the socket stays stored
Api_connect_fail(t) ==
    /\ Parked(t, "request", "connecting")
    /\ Raise(t, "OSError")
    /\ UNCHANGED <<cli, loc, hist, env>>

\* lines 69-72 and 93-94: send the frame once more, or return None
Api_loop(t) ==
    /\ Runs(t, "request", "loop")
    /\ IF ApiMore(tries[t])
       THEN sends' = [sends EXCEPT ![t] = @ + 1] /\ Park(t, "sending")
       ELSE Return(t, None) /\ UNCHANGED sends
    /\ UNCHANGED <<cli, loc, op, nops, recvs, batch, hit, failed, env>>

\* line 72 returned, line 78: wait for bytes
Api_sent(t) ==
    /\ Parked(t, "request", "sending")
    /\ apiSocket = "connected"
    /\ Park(t, "receiving")
    /\ UNCHANGED <<cli, loc, hist, env>>

\* line 72 raised
Api_sent_fail(t) ==
    /\ Parked(t, "request", "sending")
    /\ failed' = [failed EXCEPT ![t] = TRUE]
    /\ Raise(t, "OSError")
    /\ UNCHANGED <<cli, loc, op, nops, sends, recvs, batch, hit, env>>

\* lines 78 and 84-91: a batch arrived
Api_recv(t, i) ==
    /\ Parked(t, "request", "receiving")
    /\ ~silent
    /\ recvs' = [recvs EXCEPT ![t] = @ + 1]
    /\ batch' = [batch EXCEPT ![t] = i]
    /\ LET k == RequestScan(Responses[i], 1, AckC0, MarkerThermostat)
       IN  /\ hit' = [hit EXCEPT ![t] = k]
           /\ IF k # 0
              THEN LET r == extract_data(Responses[i][k], THERMOSTAT)
                   IN  /\ IF r.kind = "exc" THEN Raise(t, r.exc)
                          ELSE Return(t, r)
                       /\ UNCHANGED tries
              ELSE /\ tries' = [tries EXCEPT ![t] = @ + 1]
                   /\ Goto(t, "loop")
    /\ UNCHANGED <<cli, maxTries, param, sock, rsock, pend, polled,
                   op, nops, sends, failed, env>>

\* lines 79-81: socket.timeout counts as a try
Api_timeout(t) ==
    /\ Parked(t, "request", "receiving")
    /\ tries' = [tries EXCEPT ![t] = @ + 1]
    /\ Goto(t, "loop")
    /\ UNCHANGED <<cli, maxTries, param, sock, rsock, pend, polled, hist,
                   env>>

\* line 78 raised another error than the timeout
Api_recv_fail(t) ==
    /\ Parked(t, "request", "receiving")
    /\ ~silent
    /\ failed' = [failed EXCEPT ![t] = TRUE]
    /\ Raise(t, "OSError")
    /\ UNCHANGED <<cli, loc, op, nops, sends, recvs, batch, hit, env>>

(***************************************************************************)
(* EcomaxThermostat (climate.py)                                           *)
(***************************************************************************)
\* lines 41-50: the preset name of the mode code k is at position k + 1
EM_TO_HA_MODES ==
    <<"Calendrier", "eco", "comfort", "away", "Aeration", "Fete", "Vacances",
      "HorsGel">>

\* lines 55-64
HA_TO_EM_MODES ==
    [Calendrier |-> <<0, 0>>, eco |-> <<0, 1>>, comfort |-> <<0, 2>>,
     away |-> <<0, 3>>, Aeration |-> <<0, 4>>, Fete |-> <<0, 5>>,
     Vacances |-> <<0, 6>>, HorsGel |-> <<0, 7>>]

\* the names async_set_preset_mode is called with: the presets and one that
\* is not supported
PresetNames == DOMAIN HA_TO_EM_MODES \cup {"boost"}
\* the temperatures async_set_temperature is called with, "" for none
EntityTemperatures == {"", "21.5", "19"}

StartSetPresetMode(t) ==
    \E p \in PresetNames : Start(t, "async_set_preset_mode", 0, p)
StartSetTemperature(t) ==
    \E p \in EntityTemperatures : Start(t, "async_set_temperature", 0, p)

\* task t holds the loop and runs the coroutine fn of the entity
InEntity(t, fn) ==
    running = t /\ exc[t] = "" /\ stack[t] # <<>> /\ Top(t).fn = fn

\* float(temperature) as a single
FloatOf(temperature) == UnpackFloat(PackHalves(HalfDegrees(temperature)), 0)

\* the value of key in a decoded thermostat reading
Field(result, key) ==
    result.val[CHOOSE k \in 1..Len(THERMOSTAT) : THERMOSTAT[k].key = key]

\* async_set_preset_mode that leaves _preset_mode as it was
SetPresetMode_keep(t) ==
    /\ InEntity(t, "async_set_preset_mode")
    /\ CASE Top(t).pc = "entry" ->
              IF param[t] \notin DOMAIN HA_TO_EM_MODES
              THEN Return(t, None) /\ UNCHANGED <<ent, arg>>
              ELSE /\ arg' = [arg EXCEPT ![t] = HA_TO_EM_MODES[param[t]]]
                   /\ Call(t, "async_change_preset", "changed")
                   /\ UNCHANGED ent
         [] Top(t).pc = "changed" ->
              /\ Call(t, "async_update", "updated")
              /\ UNCHANGED <<ent, arg>>
         [] Top(t).pc = "updated" ->
              Return(t, None) /\ UNCHANGED <<ent, arg>>
    /\ UNCHANGED <<cli, loc, hist, silent, wiring, published, codec,
                   sentFrames>>
\* lines 149-167: async_set_preset_mode(preset_mode)
SetPresetMode(t) ==
    /\ InEntity(t, "async_set_preset_mode")
    /\ CASE Top(t).pc = "entry" ->
              IF param[t] \notin DOMAIN HA_TO_EM_MODES
              THEN Return(t, None) /\ UNCHANGED <<ent, arg>>
              ELSE /\ arg' = [arg EXCEPT ![t] = HA_TO_EM_MODES[param[t]]]
                   /\ Call(t, "async_change_preset", "changed")
                   /\ UNCHANGED ent
         [] Top(t).pc = "changed" ->
              /\ preset' = param[t]
              /\ Call(t, "async_update", "updated")
              /\ UNCHANGED <<auto, target, current, heating, hvac, arg>>
         [] Top(t).pc = "updated" ->
              Return(t, None) /\ UNCHANGED <<ent, arg>>
    /\ UNCHANGED <<cli, loc, hist, silent, wiring, published, codec,
                   sentFrames>>

\* the register chosen the other way round
SetpointCodeSwapped ==
    IF (preset = "Calendrier" /\ auto = 1) \/ preset = "comfort"
    THEN <<0, 1, 2, 1, 0, 1>>
    ELSE <<0, 1, 2, 0, 0, 1>>
\* lines 177-182: the register the setpoint is written to
SetpointCode ==
    IF (preset = "Calendrier" /\ auto = 1) \/ preset = "comfort"
    THEN <<0, 1, 2, 0, 0, 1>>
    ELSE <<0, 1, 2, 1, 0, 1>>

\* lines 169-187: async_set_temperature(temperature=...)
SetTemperature(t) ==
    /\ InEntity(t, "async_set_temperature")
    /\ CASE Top(t).pc = "entry" ->
              IF param[t] = ""
              THEN Return(t, None) /\ UNCHANGED <<ent, arg>>
              ELSE /\ arg' = [arg EXCEPT ![t] = SetpointCode]
                   /\ Call(t, "async_set_setpoint", "set")
                   /\ UNCHANGED ent
         [] Top(t).pc = "set" ->
              /\ target' = FloatOf(param[t])
              /\ Call(t, "async_update", "updated")
              /\ UNCHANGED <<preset, auto, current, heating, hvac, arg>>
         [] Top(t).pc = "updated" ->
              Return(t, None) /\ UNCHANGED <<ent, arg>>
    /\ UNCHANGED <<cli, loc, hist, silent, wiring, published, codec,
                   sentFrames>>

\* async_update taking the two temperatures the other way round
Update_swapped(t) ==
    /\ InEntity(t, "async_update")
    /\ CASE Top(t).pc = "entry" ->
              Call(t, "async_get_thermostat", "got") /\ UNCHANGED ent
         [] Top(t).pc = "got" ->
              /\ Return(t, None)
              /\ IF ret[t].kind # "dict" \/ ret[t].val = <<>>
                 THEN UNCHANGED ent
                 ELSE /\ current' = Field(ret[t], "ACTUELLE")
                      /\ target' = Field(ret[t], "TEMPERATURE")
                      /\ preset' = IF Field(ret[t], "MODE") \in 0..7
                                   THEN EM_TO_HA_MODES[Field(ret[t], "MODE") + 1]
                                   ELSE preset
                      /\ auto' = Field(ret[t], "AUTO")
                      /\ heating' = Field(ret[t], "HEATING")
                      /\ hvac' = "auto"
    /\ UNCHANGED <<cli, loc, hist, silent, wiring, published, codec, arg,
                   sentFrames>>
\* lines 192-210: async_update()
Update(t) ==
    /\ InEntity(t, "async_update")
    /\ CASE Top(t).pc = "entry" ->
              Call(t, "async_get_thermostat", "got") /\ UNCHANGED ent
         [] Top(t).pc = "got" ->
              /\ Return(t, None)
              /\ IF ret[t].kind # "dict" \/ ret[t].val = <<>>
                 THEN UNCHANGED ent
                 ELSE /\ current' = Field(ret[t], "TEMPERATURE")
                      /\ target' = Field(ret[t], "ACTUELLE")
                      /\ preset' = IF Field(ret[t], "MODE") \in 0..7
                                   THEN EM_TO_HA_MODES[Field(ret[t], "MODE") + 1]
                                   ELSE preset
                      /\ auto' = Field(ret[t], "AUTO")
                      /\ heating' = Field(ret[t], "HEATING")
                      /\ hvac' = "auto"
    /\ UNCHANGED <<cli, loc, hist, silent, wiring, published, codec, arg,
                   sentFrames>>

(***************************************************************************)
(* Specifications                                                          *)
(***************************************************************************)
\* the batches that are one frame cut in two consecutive receives
CutBatches == 15..20

\* the batches one receive may get when no frame is cut by a receive
AllBatches == (1..NBatches) \ CutBatches

\* SpecSeq: one caller, one operation after the other, any batch; of the
\* entity's services the caller uses async_set_preset_mode with a preset
\* name the integration does not know
SeqTask == Coordinator

StartSeq ==
    \/ StartConnect(SeqTask) \/ StartDisconnect(SeqTask) \/ StartSend(SeqTask)
    \/ StartRequest(SeqTask) \/ StartListen(SeqTask) \/ StartPoll(SeqTask)
    \/ StartChangePreset(SeqTask) \/ StartApiRequest(SeqTask)
    \/ StartSetSetpoint(SeqTask) \/ StartGetThermostat(SeqTask)
    \/ Start(SeqTask, "async_set_preset_mode", 0, "boost")

StepSeq ==
    \/ Connect_entry(SeqTask) \/ Connect_done(SeqTask)
    \/ Connect_fail(SeqTask) \/ Disconnect_entry(SeqTask)
    \/ Disconnect_close_fail(SeqTask)
    \/ Send_entry(SeqTask) \/ Send_loop(SeqTask) \/ Send_sent(SeqTask)
    \/ Send_sent_fail(SeqTask)
    \/ (\E i \in AllBatches : Send_recv(SeqTask, i))
    \/ Send_recv_fail(SeqTask) \/ Send_wake(SeqTask)
    \/ Request_entry(SeqTask) \/ Request_loop(SeqTask)
    \/ Request_sent(SeqTask) \/ Request_sent_fail(SeqTask)
    \/ Request_wake(SeqTask)
    \/ (\E i \in AllBatches : Request_recv(SeqTask, i))
    \/ Request_recv_fail(SeqTask)
    \/ Listen_entry(SeqTask) \/ Listen_loop(SeqTask)
    \/ Listen_connected(SeqTask)
    \/ (\E i \in AllBatches : Listen_recv(SeqTask, i))
    \/ Listen_recv_fail(SeqTask)
    \/ Poll_entry(SeqTask) \/ Poll_connected(SeqTask)
    \/ Poll_listened(SeqTask) \/ Poll_disconnected(SeqTask)
    \/ Poll_except(SeqTask)
    \/ Preset_entry(SeqTask) \/ Preset_try(SeqTask)
    \/ Preset_finally(SeqTask) \/ Preset_end(SeqTask)
    \/ Setpoint_entry(SeqTask) \/ Setpoint_try(SeqTask)
    \/ Setpoint_finally(SeqTask) \/ Setpoint_end(SeqTask)
    \/ Thermostat_entry(SeqTask) \/ Thermostat_try(SeqTask)
    \/ Thermostat_finally(SeqTask) \/ Thermostat_end(SeqTask)
    \/ Api_entry(SeqTask) \/ Api_connected(SeqTask)
    \/ Api_connect_fail(SeqTask) \/ Api_loop(SeqTask) \/ Api_sent(SeqTask)
    \/ Api_sent_fail(SeqTask)
    \/ (\E i \in AllBatches : Api_recv(SeqTask, i))
    \/ Api_timeout(SeqTask) \/ Api_recv_fail(SeqTask)
    \/ SetPresetMode(SeqTask)

NextSeq == StartSeq \/ StepSeq

SpecSeq == Init /\ [][NextSeq]_vars

\* Spec: the coordinator's task and the climate entity's task share the
\* client.  The coordinator connects, listens for the broadcast and
\* disconnects; the climate entity changes the preset (connect, async_send,
\* disconnect).  The controller answers a receive with no frame, the
\* acknowledgement or the broadcast.
SharedBatches == {2, 9, 14}

StartStep ==
    \/ StartConnect(Coordinator) \/ StartDisconnect(Coordinator)
    \/ (\E mt \in 1..MaxTries :
            Start(Coordinator, "listen_frame", mt, "GET_DATAS"))
    \/ StartChangePreset(Climate)

ClientStep(t) ==
    \/ Connect_entry(t) \/ Connect_done(t) \/ Connect_fail(t)
    \/ Disconnect_entry(t) \/ Disconnect_close_fail(t)
    \/ Send_entry(t) \/ Send_loop(t) \/ Send_sent(t) \/ Send_sent_fail(t)
    \/ (\E i \in SharedBatches : Send_recv(t, i))
    \/ Send_recv_fail(t) \/ Send_wake(t)
    \/ Listen_entry(t) \/ Listen_loop(t) \/ Listen_connected(t)
    \/ (\E i \in SharedBatches : Listen_recv(t, i))
    \/ Listen_recv_fail(t)
    \/ Preset_entry(t) \/ Preset_try(t) \/ Preset_finally(t) \/ Preset_end(t)

Next == StartStep \/ \E t \in Tasks : ClientStep(t)

InitShared == Init /\ ~silent

Spec == InitShared /\ [][Next]_vars

(***************************************************************************)
(* SpecCodec: the pure functions of the codec, each applied to arguments   *)
(* drawn from bounded sets: Trame (construct, change an attribute, build), *)
(* the frame splitting of the receive loops, and extract_data              *)
(***************************************************************************)
\* destination / source strings: two bytes, one byte, three bytes, and one
\* with an odd number of digits
Addresses ==
    {<<6, 4, 0, 0>>, <<0, 1, 0, 0>>, <<6, 4>>, <<6, 4, 0, 0, 0, 0>>,
     <<6, 4, 0>>}
\* function codes: write, read, and one of two bytes
Functions == {WriteFunction, <<4, 0>>, <<4, 0, 2, 9>>}
\* param strings: the preset register, the thermostat request, nothing
Params == {<<0, 1, 1, 14, 0, 1>>, <<6, 4, 7, 8, 0, 0>>, <<>>}
ValueHexes == {<<0, 1>>, <<>>}
\* the shortest data field whose length no longer fits the length field
LongParam == Tuple([i \in 1..(2 * (Int16Max - 5 + 1)) |-> 0])

\* the arguments of the frames the integration builds
Usual ==
    [dst |-> <<6, 4, 0, 0>>, src |-> <<0, 1, 0, 0>>, fn |-> <<4, 0>>,
     ack_f |-> AckC0, prm |-> <<6, 4, 7, 8, 0, 0>>, value_hex |-> <<>>]

\* two-byte addresses and a one-byte function with every payload, then
\* each of destination, source and function in turn of another size
TrameArgs ==
    {[Usual EXCEPT !.fn = f, !.prm = p, !.value_hex = v] :
        f \in {WriteFunction, <<4, 0>>}, p \in Params, v \in ValueHexes}
      \cup {[Usual EXCEPT !.dst = a] : a \in Addresses}
      \cup {[Usual EXCEPT !.src = a] : a \in Addresses}
      \cup {[Usual EXCEPT !.fn = f] : f \in Functions}
      \cup {[Usual EXCEPT !.prm = LongParam]}
      \cup {[Usual EXCEPT !.ack_f = AckA9],
            [Usual EXCEPT !.fn = WriteFunction, !.ack_f = AckA9,
                          !.prm = <<0, 1, 1, 14, 0, 1>>,
                          !.value_hex = <<0, 1>>]}

\* all sequences over S of length n, and of length at most n
RECURSIVE SeqsOfLen(_, _)
SeqsOfLen(S, n) ==
    IF n = 0 THEN {<<>>}
    ELSE {Append(q, x) : q \in SeqsOfLen(S, n - 1), x \in S}
SeqsUpTo(S, n) == UNION {SeqsOfLen(S, k) : k \in 0..n}

\* received buffers: the delimiters 68 and 16, and bytes whose hex digits
\* spell them across a byte boundary (06 81 61, 01 60)
BufferBytes == {104, 22, 6, 129, 97, 1, 96}
Buffers == SeqsUpTo(BufferBytes, MaxBuffer)

\* payloads and schemas for extract_data
PayloadBytes == {0, 1, 255}
Payloads == SeqsUpTo(PayloadBytes, MaxPayload)
Schemas ==
    { << [key |-> "A", index |-> 0, type |-> "int"],
         [key |-> "B", index |-> 1, type |-> "float"] >>,
      << [key |-> "F", index |-> 2, type |-> "float"],
         [key |-> "I", index |-> 1, type |-> "int"],
         [key |-> "J", index |-> 3, type |-> "int"] >> }

Jobs ==
    {[NoJob EXCEPT !.fn = "Trame", !.args = a] : a \in TrameArgs}
      \cup {[NoJob EXCEPT !.fn = "findall", !.buf = b] : b \in Buffers}
      \cup {[NoJob EXCEPT !.fn = "extract_data", !.buf = b, !.sch = sc] :
                b \in Payloads, sc \in Schemas}
      \cup {[NoJob EXCEPT !.fn = "extract_data",
                          !.buf = ThermoData(2, TRUE), !.sch = THERMOSTAT]}

InitCodec ==
    InitClient /\ ~silent /\ OneClient /\ job \in Jobs /\ InitCodecIdle

client == <<ctl, cli, loc, hist, silent, wiring, published, ent, arg, sentFrames>>

\* Trame(dest, source, f, ack_f, param, value_hex)
Trame_new ==
    /\ job.fn = "Trame" /\ trame = NoTrame
    /\ trame' = Trame_init(job.args.dst, job.args.src, job.args.fn,
                           job.args.ack_f, job.args.prm,
                           job.args.value_hex)
    /\ UNCHANGED <<client, conv, job, built, flipped, split, reading>>

\* the object's attributes are as the constructor left them
Pristine ==
    trame = Trame_init(job.args.dst, job.args.src, job.args.fn,
                       job.args.ack_f, job.args.prm, job.args.value_hex)

\* trame.data = d, once per object
Trame_set_data(d) ==
    /\ trame.kind = "Trame" /\ Pristine
    /\ trame' = [trame EXCEPT !.data = d]
    /\ UNCHANGED <<client, conv, job, built, flipped, split, reading>>

\* trame.da1 = a, once per object
Trame_set_da1(a) ==
    /\ trame.kind = "Trame" /\ Pristine
    /\ trame' = [trame EXCEPT !.da1 = a]
    /\ UNCHANGED <<client, conv, job, built, flipped, split, reading>>

\* trame.build()
Trame_do_build ==
    /\ trame.kind = "Trame"
    /\ built' = Trame_build(trame)
    /\ flipped' = None
    /\ UNCHANGED <<client, conv, job, trame, split, reading>>

\* x with bit b flipped
FlipBit(x, b) == IF (x \div (2 ^ b)) % 2 = 1 THEN x - 2 ^ b ELSE x + 2 ^ b

\* one bit of byte i (between the start byte and the CRC) of the built
\* frame is flipped on the wire
Trame_flip(i, b) ==
    /\ built.kind = "bytes" /\ flipped = None
    /\ i \in 2..(Len(built.val) - 3)
    /\ flipped' = BytesOf([built.val EXCEPT ![i] = FlipBit(@, b)])
    /\ UNCHANGED <<client, conv, job, trame, built, split, reading>>

\* client.py lines 207-210 and 347-349: the received bytes as hex, split;
\* prev keeps the candidates of the previous split of the same buffer
Split ==
    /\ job.fn = "findall" /\ split.runs < MaxSplits
    /\ split' = [runs |-> split.runs + 1,
                 val  |-> re_findall(ToHex(job.buf)),
                 prev |-> split.val]
    /\ UNCHANGED <<client, conv, job, trame, built, flipped, reading>>

\* extract_data(data, data_struct) on the hex of the payload
Extract ==
    /\ job.fn = "extract_data" /\ reading = None
    /\ reading' = extract_data(ToHex(job.buf), job.sch)
    /\ UNCHANGED <<client, conv, job, trame, built, flipped, split>>

NextCodec ==
    \/ Trame_new
    \/ (\E d \in Params : Trame_set_data(d))
    \/ (\E a \in {<<0, 1>>, <<>>} : Trame_set_da1(a))
    \/ Trame_do_build
    \/ (\E i \in 1..MaxFrame, b \in 0..7 : Trame_flip(i, b))
    \/ Split
    \/ Extract

SpecCodec == InitCodec /\ [][NextCodec]_vars

(***************************************************************************)
(* SpecEntity: Home Assistant calls the thermostat entity's services, one  *)
(* after the other; the entity uses the client, the controller answers a   *)
(* receive with no frame or with the acknowledgement                       *)
(***************************************************************************)
EntityBatches == {2, 9}

StartEntity == StartSetPresetMode(Climate) \/ StartSetTemperature(Climate)

StepEntity ==
    \/ SetPresetMode(Climate) \/ SetTemperature(Climate) \/ Update(Climate)
    \/ Connect_entry(Climate) \/ Connect_done(Climate)
    \/ Connect_fail(Climate) \/ Disconnect_entry(Climate)
    \/ Disconnect_close_fail(Climate)
    \/ Send_entry(Climate) \/ Send_loop(Climate) \/ Send_sent(Climate)
    \/ Send_sent_fail(Climate)
    \/ (\E i \in EntityBatches : Send_recv(Climate, i))
    \/ Send_recv_fail(Climate) \/ Send_wake(Climate)
    \/ Preset_entry(Climate) \/ Preset_try(Climate)
    \/ Preset_finally(Climate) \/ Preset_end(Climate)
    \/ Setpoint_entry(Climate) \/ Setpoint_try(Climate)
    \/ Setpoint_finally(Climate) \/ Setpoint_end(Climate)
    \/ Thermostat_entry(Climate) \/ Thermostat_try(Climate)
    \/ Thermostat_finally(Climate) \/ Thermostat_end(Climate)

NextEntity == StartEntity \/ StepEntity

SpecEntity == Init /\ [][NextEntity]_vars


(***************************************************************************)
(* SpecPreset: the preset tables of climate.py and of mappings.py, each    *)
(* applied to a mode code or a preset name and then, the other way round,  *)
(* to what it gave                                                         *)
(***************************************************************************)
\* mappings.py lines 13-22 (PRESET_ECO, PRESET_COMFORT and PRESET_AWAY are
\* "eco", "comfort" and "away"): the name of mode code k is at k + 1
Mappings_EM_TO_HA_MODES ==
    <<"Calendrier", "eco", "comfort", "Exterieur", "Aeration", "Fete",
      "Vacances", "away">>

\* mappings.py lines 25-34
Mappings_HA_TO_EM_MODES ==
    [Calendrier |-> <<0, 3>>, eco |-> <<0, 2>>, comfort |-> <<0, 1>>,
     Exterieur |-> <<0, 7>>, Aeration |-> <<0, 4>>, Fete |-> <<0, 5>>,
     Vacances |-> <<0, 6>>, away |-> <<0, 0>>]

\* mappings.py lines 36-38: EM_TO_HA_MODES.get(mode_code, default)
em_to_ha(mode_code, default) ==
    IF mode_code \in 0..7 THEN Mappings_EM_TO_HA_MODES[mode_code + 1]
    ELSE default

\* mappings.py lines 40-42: HA_TO_EM_MODES.get(preset, default)
ha_to_em(preset_name, default) ==
    IF preset_name \in DOMAIN Mappings_HA_TO_EM_MODES
    THEN Mappings_HA_TO_EM_MODES[preset_name]
    ELSE default

\* climate.py line 205: EM_TO_HA_MODES.get(mode_code, self._preset_mode)
Climate_em_to_ha(mode_code, default) ==
    IF mode_code \in 0..7 THEN EM_TO_HA_MODES[mode_code + 1] ELSE default

\* climate.py lines 158-161: HA_TO_EM_MODES[preset_mode], nothing for a name
\* that is not a key
Climate_ha_to_em(preset_name) ==
    IF preset_name \in DOMAIN HA_TO_EM_MODES
    THEN HA_TO_EM_MODES[preset_name]
    ELSE <<>>

PresetTables == {"climate", "mappings"}
\* the mode codes of the controller and one it does not have
ModeCodes == 0..8
\* the names of both modules' tables and one that is in neither
ConvNames ==
    DOMAIN HA_TO_EM_MODES \cup DOMAIN Mappings_HA_TO_EM_MODES \cup {"boost"}
\* what a lookup of an unknown mode code falls back to
ConvDefaults == {"Calendrier", "eco"}

ConvInputs ==
    {[NoConv EXCEPT !.table = tb, !.from = "code", !.dflt = d, !.code = c] :
        tb \in PresetTables, d \in ConvDefaults, c \in ModeCodes}
      \cup
    {[NoConv EXCEPT !.table = tb, !.from = "name", !.dflt = d, !.name = p] :
        tb \in PresetTables, d \in ConvDefaults, p \in ConvNames}

InitPreset ==
    /\ InitClient /\ ~silent /\ OneClient /\ job = NoJob
    /\ trame = NoTrame /\ built = None /\ flipped = None
    /\ split = NoSplit /\ reading = None
    /\ conv \in ConvInputs

\* the preset name of table tb for mode code c
NameOf(tb, c, d) ==
    IF tb = "mappings" THEN em_to_ha(c, d) ELSE Climate_em_to_ha(c, d)

\* the hex code of table tb for the name p
CodeOf(tb, p) ==
    IF tb = "mappings" THEN ha_to_em(p, <<0, 0>>) ELSE Climate_ha_to_em(p)

\* int(h, 16) of two hex digits
IntOfHex(h) == FromHex(h)[1]

\* mode code to preset name: of the given code, or of the code that the
\* given name was turned into
Conv_em_to_ha ==
    /\ \/ /\ conv.from = "code" /\ conv.n = 0
          /\ conv' = [conv EXCEPT
                         !.name = NameOf(conv.table, conv.code, conv.dflt),
                         !.n = 1]
       \/ /\ conv.from = "name" /\ conv.n = 1 /\ conv.hex # <<>>
          /\ conv' = [conv EXCEPT
                         !.back = NameOf(conv.table, IntOfHex(conv.hex),
                                         conv.dflt),
                         !.n = 2]
    /\ UNCHANGED <<client, job, trame, built, flipped, split, reading>>

\* preset name to hex code: of the given name, or of the name that the
\* given code was turned into
Conv_ha_to_em ==
    /\ \/ conv.from = "name" /\ conv.n = 0
       \/ conv.from = "code" /\ conv.n = 1
    /\ conv' = [conv EXCEPT !.hex = CodeOf(conv.table, conv.name),
                            !.n = conv.n + 1]
    /\ UNCHANGED <<client, job, trame, built, flipped, split, reading>>

NextPreset == Conv_em_to_ha \/ Conv_ha_to_em

SpecPreset == InitPreset /\ [][NextPreset]_vars


(***************************************************************************)
(* SpecStub: the thermostat entity on the client stub of its tests         *)
(* (tests/test_climate.py, DummyClient): the stub records the frames       *)
(* instead of sending them and answers the thermostat lookup with the      *)
(* response it was constructed with                                        *)
(***************************************************************************)
\* the singles 21.5 and 23.0
StubFloats == {UnpackFloat(<<0, 0, 172, 65>>, 0), UnpackFloat(<<0, 0, 184, 65>>, 0)}
\* a mode code of EM_TO_HA_MODES and one that is not
StubModes == {2, 8}

\* DummyClient(response): nothing, the empty dict, or a reading with the
\* keys of THERMOSTAT
StubResponses ==
    {None, EmptyDict} \cup
    {[kind |-> "dict", exc |-> "",
      val |-> <<m, a, tc, UnpackFloat(<<0, 0, 172, 65>>, 0),
                UnpackFloat(<<0, 0, 172, 65>>, 0), ta, h>>] :
        m \in StubModes, a \in {0, 1}, tc \in StubFloats, ta \in StubFloats,
        h \in {0, 1}}

InitStub ==
    InitClient /\ ~silent /\ response \in StubResponses
    /\ inst = [t \in Tasks |-> "client"] /\ job = NoJob
    /\ InitCodecIdle

StartUpdate(t) == Start(t, "async_update", 0, "")

\* lines 209-220 of the tests: build the frame, record it
Dummy_change_preset(t) ==
    /\ Runs(t, "async_change_preset", "entry")
    /\ sentFrames' = [sentFrames EXCEPT
                        ![t] = Append(@, [frame |-> PresetFrame(t).val,
                                          ack |-> AckA9])]
    /\ Return(t, None)
    /\ UNCHANGED <<cli, loc, hist, silent, wiring, published, codec, ent,
                   arg>>

\* lines 222-234 of the tests: pack the value, build the frame, record it
Dummy_set_setpoint(t) ==
    /\ Runs(t, "async_set_setpoint", "entry")
    /\ sentFrames' = [sentFrames EXCEPT
                        ![t] = Append(@, [frame |-> SetpointFrame(t).val,
                                          ack |-> AckA9])]
    /\ Return(t, None)
    /\ UNCHANGED <<cli, loc, hist, silent, wiring, published, codec, ent,
                   arg>>

\* lines 236-238 of the tests: return the stored response
Dummy_get_thermostat(t) ==
    /\ Runs(t, "async_get_thermostat", "entry")
    /\ Return(t, response)
    /\ UNCHANGED <<cli, loc, hist, env>>

NextStub ==
    \/ StartUpdate(Climate)
    \/ StartSetPresetMode(Climate) \/ StartSetTemperature(Climate)
    \/ SetPresetMode(Climate) \/ SetTemperature(Climate) \/ Update(Climate)
    \/ Dummy_change_preset(Climate) \/ Dummy_set_setpoint(Climate)
    \/ Dummy_get_thermostat(Climate)

SpecStub == InitStub /\ [][NextStub]_vars


(***************************************************************************)
(* SpecTwo: two EcoMaxClient objects in one event loop, each used by one   *)
(* task: connect, disconnect, async_send and listen_frame calls on the two *)
(* interleave at the suspension points                                     *)
(***************************************************************************)
InitTwo ==
    InitClient /\ ~silent /\ response = None
    /\ inst = [t \in Tasks |-> IF t = Coordinator THEN "client" ELSE "other"]
    /\ job = NoJob /\ InitCodecIdle

StartTwo(t) ==
    \/ StartConnect(t) \/ StartDisconnect(t) \/ StartSend(t)
    \/ StartListen(t)

TwoStep(t) ==
    \/ Connect_entry(t) \/ Connect_done(t) \/ Connect_fail(t)
    \/ Disconnect_entry(t) \/ Disconnect_close_fail(t)
    \/ Send_entry(t) \/ Send_loop(t) \/ Send_sent(t) \/ Send_sent_fail(t)
    \/ (\E i \in SharedBatches : Send_recv(t, i))
    \/ Send_recv_fail(t) \/ Send_wake(t)
    \/ Listen_entry(t) \/ Listen_loop(t) \/ Listen_connected(t)
    \/ (\E i \in SharedBatches : Listen_recv(t, i))
    \/ Listen_recv_fail(t)

NextTwo == \E t \in Tasks : StartTwo(t) \/ TwoStep(t)

SpecTwo == InitTwo /\ [][NextTwo]_vars


(***************************************************************************)
(* SpecCut: the controller sends one matching frame, the thermostat answer *)
(* to a request and the broadcast to a listener, and the stream reaches    *)
(* sock_recv whole or cut in two consecutive batches, after at most one    *)
(* batch without a frame                                                   *)
(***************************************************************************)
\* the first batch of the frame, whole or cut, that operation fn waits for
CutFirst(fn) ==
    IF fn = "async_request" THEN {3, 15, 17}
    ELSE IF fn = "listen_frame" THEN {14, 19}
    ELSE {}

\* what the next sock_recv of task t returns
CutNext(t, i) ==
    IF batch[t] \in {15, 17, 19} THEN i = batch[t] + 1
    ELSE IF batch[t] = 0 THEN i = 2 \/ i \in CutFirst(op[t])
    ELSE batch[t] = 2 /\ i \in CutFirst(op[t])

StartCut ==
    \/ StartConnect(SeqTask) \/ StartDisconnect(SeqTask)
    \/ StartRequest(SeqTask)
    \/ (\E mt \in 1..MaxTries :
            Start(SeqTask, "listen_frame", mt, "GET_DATAS"))

StepCut ==
    \/ Connect_entry(SeqTask) \/ Connect_done(SeqTask)
    \/ Connect_fail(SeqTask) \/ Disconnect_entry(SeqTask)
    \/ Disconnect_close_fail(SeqTask)
    \/ Request_entry(SeqTask) \/ Request_loop(SeqTask)
    \/ Request_sent(SeqTask) \/ Request_wake(SeqTask)
    \/ (\E i \in 1..NBatches :
            CutNext(SeqTask, i) /\ Request_recv(SeqTask, i))
    \/ Listen_entry(SeqTask) \/ Listen_loop(SeqTask)
    \/ Listen_connected(SeqTask)
    \/ (\E i \in 1..NBatches :
            CutNext(SeqTask, i) /\ Listen_recv(SeqTask, i))

NextCut == StartCut \/ StepCut

SpecCut == InitShared /\ [][NextCut]_vars


(***************************************************************************)
(* SpecHA: Home Assistant runs the coordinator's poll cycle and the        *)
(* services of the thermostat entity as tasks of one event loop, on the    *)
(* one client of the config entry.  The controller answers a receive with  *)
(* no frame, the acknowledgement or the broadcast, and broadcasts within   *)
(* MaxTries receives of a poll cycle.                                      *)
(***************************************************************************)
StartHA ==
    \/ StartPoll(Coordinator)
    \/ (\E p \in {"eco", "boost"} :
            Start(Climate, "async_set_preset_mode", 0, p))
    \/ Start(Climate, "async_set_temperature", 0, "19")
    \/ StartUpdate(Climate)

\* what a receive of the poll cycle may get: the broadcast, or no frame
\* while the broadcast is not overdue
PollBatch(i) == i = 14 \/ (i = 2 /\ recvs[Coordinator] + 1 < MaxTries)

HAStep ==
    \/ Poll_entry(Coordinator) \/ Poll_connected(Coordinator)
    \/ Poll_listened(Coordinator) \/ Poll_disconnected(Coordinator)
    \/ Poll_except(Coordinator)
    \/ Listen_entry(Coordinator) \/ Listen_loop(Coordinator)
    \/ Listen_connected(Coordinator)
    \/ (\E i \in SharedBatches :
            PollBatch(i) /\ Listen_recv(Coordinator, i))
    \/ Listen_recv_fail(Coordinator)
    \/ (\E t \in Tasks :
            \/ Connect_entry(t) \/ Connect_done(t) \/ Connect_fail(t)
            \/ Disconnect_entry(t) \/ Disconnect_close_fail(t))
    \/ SetPresetMode(Climate) \/ SetTemperature(Climate) \/ Update(Climate)
    \/ Send_entry(Climate) \/ Send_loop(Climate) \/ Send_sent(Climate)
    \/ Send_sent_fail(Climate)
    \/ (\E i \in EntityBatches : Send_recv(Climate, i))
    \/ Send_recv_fail(Climate) \/ Send_wake(Climate)
    \/ Preset_entry(Climate) \/ Preset_try(Climate)
    \/ Preset_finally(Climate) \/ Preset_end(Climate)
    \/ Setpoint_entry(Climate) \/ Setpoint_try(Climate)
    \/ Setpoint_finally(Climate) \/ Setpoint_end(Climate)
    \/ Thermostat_entry(Climate) \/ Thermostat_try(Climate)
    \/ Thermostat_finally(Climate) \/ Thermostat_end(Climate)

NextHA == StartHA \/ HAStep

SpecHA == InitShared /\ [][NextHA]_vars


(***************************************************************************)
(* Properties                                                              *)
(***************************************************************************)
\* the operation task t started has returned or raised
Ended(t) == outcome[t].status \in {"returned", "raised"}

\* what a caller gets from an operation that returned None
ReturnedNone == [status |-> "returned", val |-> None, exc |-> ""]

\* task t is inside one of the engine's three exchanges
InFlight(t) ==
    \E k \in 1..Len(stack[t]) :
        stack[t][k].fn \in {"async_request", "async_send", "listen_frame"}

\* the candidates of the batch task t received last
Candidates(t) == IF batch[t] = 0 THEN <<>> ELSE Responses[batch[t]]

\* verify() of a candidate given as hex digits
VerifyHex(h) == Len(h) % 2 = 0 /\ Verify(FromHex(h))

\* the sockets created and not closed
OpenSockets == {s \in 1..opened : s \notin closed}
(***************************************************************************)
(* C1                                                                      *)
(***************************************************************************)
\* the number of sends a request may make: max_tries for async_request,
\* the fixed three of EcoMAXAPI.request
RequestBudget(t) == IF op[t] = "request" THEN ApiMaxTries ELSE maxTries[t]

\* a request that has ended after at least one send, without a transport
\* error and without a matching frame
RequestUnanswered(t) ==
    /\ op[t] \in {"async_request", "request"}
    /\ Ended(t) /\ sends[t] > 0 /\ hit[t] = 0 /\ ~failed[t]

\* C1 (as the code behaves): a request never sends more than N times, N
\* being max_tries for async_request and 3 for EcoMAXAPI.request; when no
\* batch held a matching frame it has sent exactly N times and it returns
\* None, raising nothing.
C1_UnansweredRequestReturnsNone ==
    \A t \in Tasks :
        /\ op[t] \in {"async_request", "request"}
               => sends[t] <= RequestBudget(t)
        /\ RequestUnanswered(t)
               => sends[t] = RequestBudget(t) /\ outcome[t] = ReturnedNone

\* C1 witness: async_request(max_tries=3) ended after three sends and three
\* batches without a match, returning None
C1_Witness ==
    \E t \in Tasks :
        /\ RequestUnanswered(t) /\ op[t] = "async_request"
        /\ maxTries[t] = 3 /\ sends[t] = 3 /\ recvs[t] = 3
        /\ outcome[t] = ReturnedNone

\* C1 (as the specification states it): a request that found no matching
\* frame has sent exactly N times and ends raising NoResponseError.
C1_UnansweredRequestRaises ==
    \A t \in Tasks :
        RequestUnanswered(t)
            => /\ sends[t] = RequestBudget(t)
               /\ outcome[t].status = "raised"
               /\ outcome[t].exc = "NoResponseError"

(***************************************************************************)
(* C2                                                                      *)
(***************************************************************************)
\* the candidates of a batch that carry the ack flag c0 and the marker
MatchingCandidates(cs) ==
    {k \in 1..Len(cs) :
        /\ Len(cs[k]) >= 16 /\ cs[k][15] = 12 /\ cs[k][16] = 0
        /\ Contains(cs[k], MarkerThermostat)}

\* C2: after a receive of async_request, the accepted candidate is the
\* matching candidate of smallest index (none when no candidate matches);
\* when there is one the request has ended with its decode (the reading, or
\* the exception the decoder raised) and every send was followed by exactly
\* one receive, so no further attempt was made.
C2_FirstMatchWins ==
    \A t \in Tasks :
        (op[t] = "async_request" /\ recvs[t] > 0) =>
            LET cs == Candidates(t)
                M  == MatchingCandidates(cs)
            IN  IF M = {} THEN hit[t] = 0
                ELSE /\ hit[t] \in M /\ \A k \in M : hit[t] <= k
                     /\ Ended(t) /\ sends[t] = recvs[t]
                     /\ LET r == extract_data(cs[hit[t]], THERMOSTAT)
                        IN  IF r.kind = "exc"
                            THEN /\ outcome[t].status = "raised"
                                 /\ outcome[t].exc = r.exc
                            ELSE /\ outcome[t].status = "returned"
                                 /\ outcome[t].val = r

\* C2 witness: the second batch of a request holds two candidates of which
\* only the second matches, and the request returned the second's decode
\* (MODE is 2 in it, 5 in the first)
C2_Witness ==
    \E t \in Tasks :
        /\ op[t] = "async_request" /\ recvs[t] = 2
        /\ Batches[batch[t]] = FrameWrongAck \o FrameT(2)
        /\ Len(Candidates(t)) = 2 /\ hit[t] = 2
        /\ outcome[t].status = "returned"
        /\ outcome[t].val.val[1] = 2

(***************************************************************************)
(* C3                                                                      *)
(***************************************************************************)
\* task t waits in the sock_recv of one of the three exchanges
Receiving(t) == InFlight(t) /\ stack[t] # <<>> /\ Top(t).pc = "receiving"

\* C3: the exchanges on the shared client do not overlap: no task waits
\* for bytes in async_request, async_send or listen_frame while another
\* task is inside one of them and has sent its frame.
C3_SingleFlight ==
    \A a \in Tasks : \A b \in Tasks \ {a} :
        ~(Receiving(a) /\ InFlight(b) /\ sends[b] > 0)

(***************************************************************************)
(* C4                                                                      *)
(***************************************************************************)
\* the open sockets whose connect has completed
ConnectedSockets ==
    {s \in OpenSockets :
        \A t \in Tasks : ~(At(t, "async_connect", "connecting") /\ sock[t] = s)}

\* C4: the client never has more than one connected socket that it did
\* not close.
C4_AtMostOneOpenSocket == Cardinality(ConnectedSockets) <= 1

(***************************************************************************)
(* C5                                                                      *)
(***************************************************************************)
\* C5: an operation that has not ended can always take a step: a receive
\* ends with a batch, with an error or with a timeout, also when the
\* controller never sends.  (The loops are bounded, so this is what
\* termination needs.)
C5_PendingOperationCanStep ==
    \A t \in Tasks : stack[t] # <<>> => ENABLED StepSeq

(***************************************************************************)
(* C6                                                                      *)
(***************************************************************************)
\* C6: in async_request and async_send, a send or receive that failed ended
\* the operation with that error; a try is counted only for a received
\* batch without a match; and no send is made beyond the try being counted.
C6_TransportErrorEndsOperation ==
    \A t \in Tasks :
        op[t] \in {"async_request", "async_send"} =>
            /\ failed[t] => /\ Ended(t)
                            /\ outcome[t].status = "raised"
                            /\ outcome[t].exc = "OSError"
            /\ tries[t] + (IF hit[t] # 0 THEN 1 ELSE 0) = recvs[t]
            /\ sends[t] <= tries[t] + 1

\* C6 witness: async_request failed during its second attempt, after one
\* batch without a match, and the error reached the caller
C6_Witness ==
    \E t \in Tasks :
        /\ op[t] = "async_request" /\ failed[t]
        /\ sends[t] = 2 /\ recvs[t] = 1 /\ tries[t] = 1
        /\ outcome[t].status = "raised" /\ outcome[t].exc = "OSError"

(***************************************************************************)
(* C7                                                                      *)
(***************************************************************************)
\* async_send has ended after at least one send, without a transport error
SendEnded(t) ==
    op[t] = "async_send" /\ Ended(t) /\ sends[t] > 0 /\ ~failed[t]

\* C7 (as the code behaves): async_send never sends more than 10 times; it
\* returns None when the acknowledgement was seen, and it returns the same
\* None after 10 sends without one; it never raises NoResponseError.
C7_SendReturnsNoneEitherWay ==
    \A t \in Tasks :
        /\ op[t] = "async_send" => sends[t] <= SendMaxAttempts
        /\ SendEnded(t)
               => /\ outcome[t] = ReturnedNone
                  /\ hit[t] = 1 \/ (sends[t] = SendMaxAttempts
                                    /\ recvs[t] = SendMaxAttempts)

\* C7 witness: async_send returned None after ten sends and ten batches,
\* none of which acknowledged
C7_Witness ==
    \E t \in Tasks :
        /\ SendEnded(t) /\ hit[t] = 0
        /\ sends[t] = SendMaxAttempts /\ recvs[t] = SendMaxAttempts
        /\ outcome[t] = ReturnedNone

\* C7 (as the specification states it): async_send returns only when the
\* acknowledgement was seen, and raises NoResponseError otherwise.
C7_SendReturnsOnlyWhenAcked ==
    \A t \in Tasks :
        SendEnded(t) =>
            IF hit[t] = 1 THEN outcome[t] = ReturnedNone
            ELSE /\ outcome[t].status = "raised"
                 /\ outcome[t].exc = "NoResponseError"

(***************************************************************************)
(* C8                                                                      *)
(***************************************************************************)
\* C8: a receive of async_send counts as acknowledged exactly when some
\* candidate frame of the batch has the ack flag a9 at its header offset.
C8_AckedIffSomeCandidateHasFlag ==
    \A t \in Tasks :
        (op[t] = "async_send" /\ recvs[t] > 0) =>
            (hit[t] = 1 <=>
                \E k \in 1..Len(Candidates(t)) :
                    AckAt(Candidates(t)[k], AckA9))

(***************************************************************************)
(* C9                                                                      *)
(***************************************************************************)
\* C9: the candidate async_request accepted passes verify().
C9_AcceptedCandidateVerifies ==
    \A t \in Tasks :
        (op[t] = "async_request" /\ hit[t] # 0) =>
            VerifyHex(Candidates(t)[hit[t]])

(***************************************************************************)
(* C10                                                                     *)
(***************************************************************************)
\* C10: when a poll cycle has ended, the client holds no socket and every
\* socket it opened is closed.
C10_PollEndsDisconnected ==
    \A t \in Tasks :
        (op[t] = "_async_update_data" /\ Ended(t)) =>
            socket[inst[t]] = 0 /\ OpenSockets = {}

(***************************************************************************)
(* C11                                                                     *)
(***************************************************************************)
\* the operations that wrap their work in connect / try / finally disconnect
Commands == {"async_change_preset", "async_set_setpoint",
             "async_get_thermostat"}

\* C11: once async_change_preset, async_set_setpoint or
\* async_get_thermostat has returned or raised, whatever the sends and
\* receives did, the client holds no socket and every socket that was
\* created is closed
C11_CommandEndsDisconnected ==
    LET t == SeqTask
    IN  (op[t] \in Commands /\ Ended(t)) =>
            socket[inst[t]] = 0 /\ OpenSockets = {}

\* a preset change whose receive failed after a send: the error left the
\* operation and the socket it used is closed
C11_Witness ==
    LET t == SeqTask
    IN  /\ op[t] = "async_change_preset"
        /\ outcome[t].status = "raised" /\ outcome[t].exc = "OSError"
        /\ failed[t] /\ sends[t] > 0
        /\ socket[inst[t]] = 0 /\ opened > 0 /\ OpenSockets = {}

(***************************************************************************)
(* C12                                                                     *)
(***************************************************************************)
\* an exception is on its way out of the coroutine task t was running
Raising(t) ==
    \/ stack[t] = <<>> /\ outcome[t].status = "raised"
    \/ stack[t] # <<>> /\ exc[t] # ""

\* C12: async_connect on a client that holds a socket returns without
\* creating a socket and leaves the held socket as it is; a connect attempt
\* ends either with the new socket held and open, or with an error raised,
\* the new socket closed and no socket held
C12_ConnectIdempotent ==
    [][LET t == SeqTask
       IN  /\ (Runs(t, "async_connect", "entry") /\ socket[inst[t]] # 0) =>
                  /\ socket'[inst[t]] = socket[inst[t]]
                  /\ opened' = opened /\ closed' = closed
                  /\ stack'[t] = Pop(stack[t]) /\ ~Raising(t)'
           /\ (At(t, "async_connect", "connecting")
                 /\ stack'[t] # stack[t]) =>
                  \/ /\ socket'[inst[t]] = sock[t] /\ sock[t] \notin closed'
                     /\ opened' = opened /\ ~Raising(t)'
                  \/ /\ Raising(t)' /\ sock[t] \in closed'
                     /\ socket'[inst[t]] = 0 /\ opened' = opened]_vars

\* a second async_connect after a successful one: it returned, no second
\* socket exists and the first one is still held and open
C12_Witness ==
    LET t == SeqTask
    IN  /\ nops[t] = 2 /\ op[t] = "async_connect"
        /\ outcome[t].status = "returned" /\ sock[t] = 0
        /\ socket[inst[t]] = 1 /\ opened = 1 /\ closed = {}

(***************************************************************************)
(* C13                                                                     *)
(***************************************************************************)
\* C13: every step of async_disconnect leaves the client without a socket,
\* also when close() raises; entered with no socket held it changes nothing
\* and returns normally; and the socket a later async_connect creates is
\* one that did not exist before
C13_DisconnectIdempotent ==
    [][LET t == SeqTask
       IN  /\ Runs(t, "async_disconnect", "entry") =>
                  /\ socket'[inst[t]] = 0 /\ opened' = opened
                  /\ closed' = closed \cup ({socket[inst[t]]} \ {0})
                  /\ (socket[inst[t]] = 0 => (stack'[t] = Pop(stack[t])
                                        /\ ~Raising(t)'))
           /\ (Runs(t, "async_connect", "entry") /\ socket[inst[t]] = 0) =>
                  /\ sock'[t] = opened + 1 /\ opened' = opened + 1
                  /\ sock'[t] \notin closed']_vars

\* an async_disconnect whose close() raised: the error left the operation,
\* the socket that was held is closed and the client holds none
C13_Witness ==
    LET t == SeqTask
    IN  /\ nops[t] = 2 /\ op[t] = "async_disconnect"
        /\ outcome[t].status = "raised" /\ outcome[t].exc = "OSError"
        /\ socket[inst[t]] = 0 /\ opened = 1 /\ closed = {1}

(***************************************************************************)
(* C14                                                                     *)
(***************************************************************************)
\* C14: listen_frame, called on its own or by the poll cycle, never calls
\* sock_sendall: whatever it received and however it ended, the number of
\* sends of the operation is zero
C14_ListenNeverSends ==
    LET t == SeqTask
    IN  op[t] \in {"listen_frame", "_async_update_data"} => sends[t] = 0

\* a listen that went through several receives and ended with nothing sent
C14_Witness ==
    LET t == SeqTask
    IN  /\ op[t] = "listen_frame" /\ Ended(t)
        /\ recvs[t] >= 2 /\ sends[t] = 0

(***************************************************************************)
(* C15                                                                     *)
(***************************************************************************)
\* C15: after a receive of listen_frame for a parameter with a length, the
\* accepted candidate (if any) has exactly that many bytes and contains the
\* marker, no candidate of another length is accepted even when it contains
\* the marker, and a reading is returned only as the decode of the accepted
\* candidate
C15_LengthFilterBeforeMarker ==
    LET t == SeqTask
    IN  (op[t] = "listen_frame" /\ param[t] \in DOMAIN PARAMETER) =>
            LET cs   == Candidates(t)
                info == PARAMETER[param[t]]
            IN  /\ \A k \in 1..Len(cs) :
                     Len(cs[k]) # 2 * info.length => hit[t] # k
                /\ hit[t] # 0 =>
                     /\ Len(cs[hit[t]]) % 2 = 0
                     /\ Len(FromHex(cs[hit[t]])) = info.length
                     /\ Contains(cs[hit[t]], info.dataToSearch)
                /\ (outcome[t].status = "returned"
                      /\ outcome[t].val # None) =>
                     /\ hit[t] # 0
                     /\ outcome[t].val
                          = extract_data(cs[hit[t]], info.dataStruct)

\* listen_frame("GET_DATAS") returned the decode of an 820 byte broadcast
C15_Witness ==
    LET t == SeqTask
    IN  /\ op[t] = "listen_frame" /\ param[t] = "GET_DATAS"
        /\ outcome[t].status = "returned" /\ outcome[t].val.kind = "dict"
        /\ hit[t] # 0 /\ Len(Candidates(t)[hit[t]]) = 1640

(***************************************************************************)
(* C16                                                                     *)
(***************************************************************************)
\* task t is inside listen_frame
InListen(t) == \E k \in 1..Len(stack[t]) : stack[t][k].fn = "listen_frame"

\* listen_frame went through its whole loop and returned None to task t
ListenGaveUp(t) ==
    \/ /\ op[t] = "listen_frame" /\ param[t] \in DOMAIN PARAMETER
       /\ outcome[t] = ReturnedNone
    \/ /\ op[t] = "_async_update_data" /\ outcome[t].status = "returned"
       /\ polled[t] = None

\* C16: listen_frame, called on its own with max_tries 1..3 or by the poll
\* cycle with the default 100, starts at most max_tries receives (the one
\* that is pending or failed included); every batch before the last did not
\* match; once a batch matched it has left its loop; and when it gave up it
\* had received exactly max_tries batches
C16_ListenReceivesAtMostMaxTries ==
    LET t == SeqTask
    IN  op[t] \in {"listen_frame", "_async_update_data"} =>
            /\ recvs[t] + (IF failed[t] \/ Receiving(t) THEN 1 ELSE 0)
                 <= maxTries[t]
            /\ hit[t] = 0 => tries[t] = recvs[t]
            /\ hit[t] # 0 => (~InListen(t) /\ recvs[t] = tries[t] + 1)
            /\ ListenGaveUp(t) => (recvs[t] = maxTries[t] /\ hit[t] = 0)

\* a poll cycle whose listen_frame received the default 100 batches, none
\* with a matching frame, and gave up
C16_Witness ==
    LET t == SeqTask
    IN  /\ op[t] = "_async_update_data" /\ outcome[t].status = "returned"
        /\ polled[t] = None /\ hit[t] = 0
        /\ maxTries[t] = ListenDefaultMaxTries
        /\ recvs[t] = ListenDefaultMaxTries

(***************************************************************************)
(* C17                                                                     *)
(***************************************************************************)
\* the client calls of one poll cycle
PollCalls == <<"async_connect", "listen_frame", "async_disconnect">>

\* C17: the calls a poll cycle has made are always the first calls of
\* connect, listen, disconnect, in that order; a cycle that returned made
\* all three, each once, listened for GET_DATAS, and when listen_frame
\* returned a mapping (the decode of the accepted broadcast) the cycle
\* returned that same mapping
C17_PollCallsInOrder ==
    LET t == SeqTask
    IN  op[t] = "_async_update_data" =>
            /\ Len(calls[t]) <= Len(PollCalls)
            /\ calls[t] = SubSeq(PollCalls, 1, Len(calls[t]))
            /\ outcome[t].status = "returned" =>
                 /\ calls[t] = PollCalls
                 /\ param[t] = "GET_DATAS"
                 /\ polled[t] # None =>
                      /\ hit[t] # 0
                      /\ polled[t] = extract_data(Candidates(t)[hit[t]],
                                                  ECOMAX)
                      /\ outcome[t].val = polled[t]

\* a poll cycle that returned the reading decoded from a broadcast
C17_Witness ==
    LET t == SeqTask
    IN  /\ op[t] = "_async_update_data" /\ outcome[t].status = "returned"
        /\ calls[t] = PollCalls
        /\ hit[t] # 0 /\ outcome[t].val.kind = "dict"
        /\ outcome[t].val.val # <<>>

(***************************************************************************)
(* C18                                                                     *)
(***************************************************************************)
\* the sensors: one for each entry of the ECOMAX schema
SensorKeys == 1..Len(ECOMAX)

\* EcomaxSensor.native_value is STATE_UNKNOWN: the coordinator's data is
\* None or empty, or has no value under the sensor's key
NativeValueUnknown(d, key) == d.kind # "dict" \/ key \notin DOMAIN d.val

\* C18: when a poll cycle whose listen_frame found no matching broadcast
\* frame returns, the readings published by an earlier successful cycle
\* stay published and no sensor that had a value falls back to 'unknown'
C18_FailedReadKeepsReadings ==
    [][LET t == SeqTask
       IN  (Runs(t, "_async_update_data", "disconnected")
              /\ polled[t] = None /\ published.val # <<>>) =>
               /\ published' = published
               /\ \A key \in SensorKeys :
                    ~NativeValueUnknown(published, key) =>
                        ~NativeValueUnknown(published', key)]_vars

(***************************************************************************)
(* C19                                                                     *)
(***************************************************************************)
\* C19: a poll cycle in which async_connect, listen_frame or
\* async_disconnect raised has not returned: once it has ended it has
\* raised UpdateFailed; a cycle raises nothing but UpdateFailed, and only
\* after such an exception; a cycle that returned met no exception
C19_PollErrorsSurfaceAsUpdateFailed ==
    LET t == SeqTask
    IN  op[t] = "_async_update_data" =>
            /\ err[t] # "" => outcome[t].status # "returned"
            /\ (Ended(t) /\ err[t] # "") =>
                 /\ outcome[t].status = "raised"
                 /\ outcome[t].exc = "UpdateFailed"
            /\ outcome[t].status = "raised" =>
                 /\ outcome[t].exc = "UpdateFailed"
                 /\ err[t] \in {"ConnectionError", "OSError",
                                "AssertionError"}

\* a poll cycle whose three calls were made and whose async_disconnect
\* raised when closing the socket: it ended with UpdateFailed
C19_Witness ==
    LET t == SeqTask
    IN  /\ op[t] = "_async_update_data" /\ calls[t] = PollCalls
        /\ err[t] = "OSError" /\ ~failed[t]
        /\ outcome[t].status = "raised"
        /\ outcome[t].exc = "UpdateFailed"

(***************************************************************************)
(* C20                                                                     *)
(***************************************************************************)
\* C20: when async_get_thermostat has ended and no connect, send or receive
\* failed, it has returned: the decode of the accepted response when a
\* response with ack flag c0 and the marker arrived, None otherwise
C20_GetThermostatReturnsReading ==
    LET t == SeqTask
    IN  (op[t] = "async_get_thermostat" /\ Ended(t)
           /\ err[t] \notin {"ConnectionError", "OSError"}) =>
            /\ outcome[t].status = "returned"
            /\ hit[t] = 0 => outcome[t].val = None
            /\ hit[t] # 0 =>
                 outcome[t].val
                   = extract_data(Candidates(t)[hit[t]], THERMOSTAT)

(***************************************************************************)
(* C21                                                                     *)
(***************************************************************************)
\* the job constructs a Trame with a destination and a source of exactly
\* two bytes and a function of exactly one byte
ValidSizes ==
    /\ job.fn = "Trame"
    /\ Len(job.args.dst) = 4 /\ Len(job.args.src) = 4
    /\ Len(job.args.fn) = 2

\* the payload the arguments describe
PayloadOf(args) ==
    fromhex(IF args.fn = WriteFunction
            THEN SET_CODE \o <<Space>> \o args.prm \o <<Space>>
                     \o args.value_hex
            ELSE args.prm).val

\* 68, 5 + len(payload) little-endian, source, destination, function,
\* payload, CRC big-endian, 16
ExpectedFrame(args) ==
    LET p   == PayloadOf(args)
        n   == 5 + Len(p)
        mid == <<n % 256, n \div 256>> \o FromHex(args.src)
                   \o FromHex(args.dst) \o FromHex(args.fn) \o p
    IN  <<StartByte>> \o mid \o calculate_crc(mid) \o <<EndByte>>

\* the object was constructed and, when built unchanged, gave the expected
\* frame, whose CRC bytes are the CRC of frame[1:-3]
BuiltAsExpected ==
    /\ trame.kind = "Trame"
    /\ Pristine /\ built # None =>
         /\ built = BytesOf(ExpectedFrame(job.args))
         /\ calculate_crc(SubSeq(built.val, 2, Len(built.val) - 3))
              = SubSeq(built.val, Len(built.val) - 2, Len(built.val) - 1)
         /\ Verify(built.val)

\* C21 (as the specification states it): for two-byte addresses, a one-byte function and every
\* payload, the Trame is constructed and build() returns the expected frame
C21_EveryPayload == ValidSizes /\ trame # NoTrame => BuiltAsExpected

\* C21 (as the code behaves): for two-byte addresses, a one-byte function and every
\* payload of at most 32,762 bytes, build() returns 68, the length
\* 5 + len(payload) little-endian, source, destination, function, payload,
\* the CRC big-endian and 16, and the frame verifies
C21_BuildLayout ==
    /\ ValidSizes /\ trame # NoTrame
    /\ Len(PayloadOf(job.args)) <= Int16Max - 5
    => BuiltAsExpected

\* the preset write frame was built
C21_Witness ==
    /\ job.args = [Usual EXCEPT !.fn = WriteFunction,
                                !.prm = <<0, 1, 1, 14, 0, 1>>,
                                !.value_hex = <<0, 1>>]
    /\ Pristine
    /\ built = BytesOf(<<104, 23, 0, 1, 0, 100, 0, 41, 85, 83, 69, 82, 45,
                         48, 48, 48, 0, 52, 48, 57, 53, 0, 1, 30, 1, 1, 106,
                         110, 22>>)

(***************************************************************************)
(* C22                                                                     *)
(***************************************************************************)
\* build() on the object's current fields returned the frame in built
BuiltFromCurrent ==
    trame.kind = "Trame" /\ built = Trame_build(trame) /\ built.kind = "bytes"

\* the length field of a frame and the bytes between it and the CRC
LengthField(frame) == frame[2] + 256 * frame[3]
FieldBytes(frame) == SubSeq(frame, 4, Len(frame) - 3)

\* C22: whatever was changed between construction and build(), the frame
\* build() returns carries a length field equal to the byte count of the
\* current source, destination, function and payload, and the CRC of the
\* current fields
C22_LengthAndCrcTrackFields ==
    BuiltFromCurrent =>
        /\ LengthField(built.val) = Len(FieldBytes(built.val))
        /\ calculate_crc(SubSeq(built.val, 2, Len(built.val) - 3))
             = SubSeq(built.val, Len(built.val) - 2, Len(built.val) - 1)

(***************************************************************************)
(* C23                                                                     *)
(***************************************************************************)
\* the job constructs a Trame whose destination or source is not exactly
\* two bytes or whose function is not exactly one byte
InvalidSizes == job.fn = "Trame" /\ ~ValidSizes

\* C23: when the destination or the source is not exactly 2 bytes or the
\* function code is not exactly 1 byte, constructing and building the
\* unchanged frame produces no frame, and what is raised is EncodingError
C23_BadSizesRaiseEncodingError ==
    InvalidSizes /\ Pristine /\ built # None =>
        built.kind = "exc" /\ built.exc = "EncodingError"

(***************************************************************************)
(* C24                                                                     *)
(***************************************************************************)
\* the section of a frame the CRC covers, and the CRC bytes it carries
MiddleSection(frame) == SubSeq(frame, 2, Len(frame) - 3)
EmbeddedCrc(frame) == SubSeq(frame, Len(frame) - 2, Len(frame) - 1)

\* C24: after any single bit between the length field and the end of the
\* payload of a built frame is flipped, calculate_crc over the middle
\* section differs from the CRC of the built frame, so the altered frame
\* no longer matches the CRC it carries
C24_BitFlipChangesCrc ==
    flipped # None =>
        LET crc == calculate_crc(MiddleSection(flipped.val))
        IN  /\ crc # calculate_crc(MiddleSection(built.val))
            /\ crc # EmbeddedCrc(flipped.val)

\* the top bit of the second payload byte of the thermostat request was
\* flipped
C24_Witness ==
    /\ job.args = Usual /\ Pristine
    /\ built.kind = "bytes" /\ built.val[10] = 120
    /\ flipped.kind = "bytes" /\ flipped.val[10] = 248

(***************************************************************************)
(* C25, C26                                                                *)
(***************************************************************************)
\* candidate c is the bytes s .. s + n - 1 of the buffer
SliceAt(c, s) ==
    /\ Len(c) % 2 = 0
    /\ s + (Len(c) \div 2) - 1 <= Len(job.buf)
    /\ FromHex(c) = SubSeq(job.buf, s, s + (Len(c) \div 2) - 1)

\* C25: each candidate produced by splitting a received buffer has a whole
\* number of bytes and is a slice of the buffer that begins with the byte
\* 68 and ends with the byte 16
C25_CandidatesByteAligned ==
    \A k \in 1..Len(split.val) :
        \E s \in 1..Len(job.buf) :
            /\ SliceAt(split.val[k], s)
            /\ job.buf[s] = StartByte
            /\ job.buf[s + (Len(split.val[k]) \div 2) - 1] = EndByte

\* the last byte of the candidate that starts at byte s
EndOf(c, s) == s + (Len(c) \div 2) - 1

\* C26: the candidates are slices of the buffer in buffer order that do not
\* overlap, each from a start byte 68 to the first byte 16 after it; there
\* is none when the buffer holds no 68 followed by a 16; and a second
\* split of the same buffer gives the same candidates
C26_SplitNonGreedyOrdered ==
    split.runs > 0 =>
        /\ \E at \in [1..Len(split.val) -> 1..Len(job.buf)] :
              /\ \A k \in 1..Len(split.val) :
                    /\ SliceAt(split.val[k], at[k])
                    /\ job.buf[at[k]] = StartByte
                    /\ EndOf(split.val[k], at[k]) > at[k]
                    /\ job.buf[EndOf(split.val[k], at[k])] = EndByte
                    /\ \A j \in (at[k] + 1)..(EndOf(split.val[k], at[k]) - 1) :
                          job.buf[j] # EndByte
              /\ \A k \in 1..(Len(split.val) - 1) :
                    EndOf(split.val[k], at[k]) < at[k + 1]
        /\ (~\E i, j \in 1..Len(job.buf) :
                i < j /\ job.buf[i] = StartByte /\ job.buf[j] = EndByte)
             => split.val = <<>>
        /\ split.runs > 1 => split.val = split.prev

(***************************************************************************)
(* C27                                                                     *)
(***************************************************************************)
\* the width of a schema entry, and whether the payload holds every entry
Width(entry) == IF entry.type = "int" THEN 1 ELSE 4
LongEnough == \A k \in 1..Len(job.sch) :
                 job.sch[k].index + Width(job.sch[k]) <= Len(job.buf)

\* the positions of the payload that some schema entry reads
Declared ==
    UNION {(job.sch[k].index + 1)..(job.sch[k].index + Width(job.sch[k])) :
             k \in 1..Len(job.sch)}

\* the four bytes, least significant first, that encode a single
FloatBytes(v) ==
    <<v.fraction % 256, (v.fraction \div 256) % 256,
      (v.fraction \div 65536) + 128 * (v.exponent % 2),
      (v.exponent \div 2) + 128 * v.sign>>

\* C27: for a payload long enough for the schema, extract_data returns one
\* value per schema entry: the byte at the offset for an integer, the
\* single whose little-endian bytes are those at offset..offset+3 for a
\* float; and no byte outside the declared fields changes the result
C27_ExtractRoundTrip ==
    job.fn = "extract_data" /\ reading # None /\ LongEnough =>
        /\ reading.kind = "dict"
        /\ Len(reading.val) = Len(job.sch)
        /\ \A k \in 1..Len(job.sch) :
              IF job.sch[k].type = "int"
              THEN reading.val[k] = job.buf[job.sch[k].index + 1]
              ELSE FloatBytes(reading.val[k])
                     = SubSeq(job.buf, job.sch[k].index + 1,
                              job.sch[k].index + 4)
        /\ \A i \in (1..Len(job.buf)) \ Declared : \A x \in PayloadBytes :
              extract_data(ToHex([job.buf EXCEPT ![i] = x]), job.sch)
                = reading

\* an integer 255 at offset 0, a float with bytes 01 00 00 01 at offset 1
\* and an undeclared byte behind them were decoded
C27_Witness ==
    /\ job.fn = "extract_data" /\ job.buf = <<255, 1, 0, 0, 1, 255>>
    /\ Len(job.sch) = 2
    /\ reading.kind = "dict"
    /\ reading.val = <<255, [sign |-> 0, exponent |-> 2, fraction |-> 1]>>

(***************************************************************************)
(* C28                                                                     *)
(***************************************************************************)
\* some entry of the schema reaches beyond the end of the candidate h
TooShortFor(h, schema) ==
    \E k \in 1..Len(schema) :
        2 * (schema[k].index + Width(schema[k])) > Len(h)

DecodingErrors == {"IndexError", "struct.error"}

\* C28: when async_request decodes a candidate that is too short for a
\* field of the schema, the request ends with the decoder's error raised
\* to the caller and no reading, and the attempt in which it happened was
\* not counted as a try
C28_ShortBufferRaises ==
    LET t == SeqTask
    IN  /\ op[t] = "async_request" /\ hit[t] # 0
        /\ TooShortFor(Responses[batch[t]][hit[t]], THERMOSTAT)
        => /\ outcome[t].status = "raised"
           /\ outcome[t].exc \in DecodingErrors
           /\ outcome[t].val = None
           /\ sends[t] = tries[t] + 1

\* async_request received the frame that carries the marker only
C28_Witness ==
    LET t == SeqTask
    IN  /\ op[t] = "async_request" /\ hit[t] = 1
        /\ Responses[batch[t]][1] = ToHex(FrameShort)
        /\ outcome[t].status = "raised"
        /\ outcome[t].exc \in DecodingErrors

(***************************************************************************)
(* C29                                                                     *)
(***************************************************************************)
\* the write frame for a register and a value, and what async_send gets
WriteFrame(register, value_hex) ==
    [frame |-> ExpectedFrame([Usual EXCEPT !.fn = WriteFunction,
                                           !.prm = register,
                                           !.value_hex = value_hex]),
     ack   |-> AckA9]

\* the entity's call of the client has returned and the refresh has begun
Refreshing(t) == \E k \in 1..Len(calls[t]) : calls[t][k] = "async_update"

SingleHex(temperature) ==
    IF temperature = "21.5" THEN ToHex(<<0, 0, 172, 65>>)
    ELSE ToHex(<<0, 0, 152, 65>>)

\* the register stated for the entity's preset and auto flag
ClaimedRegister ==
    IF (preset = "Calendrier" /\ auto = 1) \/ preset = "comfort"
    THEN <<0, 1, 2, 0, 0, 1>>
    ELSE <<0, 1, 2, 1, 0, 1>>

\* what holds in every state of an async_set_temperature call
SetTemperatureFrames ==
    LET t == Climate
    IN  op[t] = "async_set_temperature" =>
           IF param[t] = ""
           THEN sentFrames[t] = <<>> /\ sends[t] = 0 /\ calls[t] = <<>>
           ELSE /\ Len(sentFrames[t]) <= 1
                /\ \A k \in 1..Len(sentFrames[t]) :
                      sentFrames[t][k]
                        = WriteFrame(ClaimedRegister, SingleHex(param[t]))
                /\ Refreshing(t) => Len(sentFrames[t]) = 1

\* a step of a call without temperature
NoTemperatureStep ==
    op'[Climate] = "async_set_temperature" /\ param'[Climate] = ""

PresetOfCode(c, dflt) ==
    IF c \in 0..(Len(EM_TO_HA_MODES) - 1) THEN EM_TO_HA_MODES[c + 1] ELSE dflt

\* the step of async_update after the thermostat lookup returned
Applying(t) == Runs(t, "async_update", "got")

\* C31: when the client answers the thermostat lookup with a non-empty
\* reading, async_update sets current_temperature to its TEMPERATURE,
\* target_temperature to its ACTUELLE, preset_mode to the name of its MODE
\* code (kept for a code the table lacks), auto and heating to its AUTO and
\* HEATING; when the answer is None or empty no attribute of the entity
\* changes; and hvac_mode is AUTO in every state
C31_UpdateAppliesReading ==
    /\ [](hvac = "auto")
    /\ [][Applying(Climate) =>
            IF response.kind = "dict" /\ response.val # <<>>
            THEN /\ current' = Field(response, "TEMPERATURE")
                 /\ target' = Field(response, "ACTUELLE")
                 /\ preset' = PresetOfCode(Field(response, "MODE"), preset)
                 /\ auto' = Field(response, "AUTO")
                 /\ heating' = Field(response, "HEATING")
            ELSE UNCHANGED ent]_vars

\* the preset Fete was set on an entity whose client answers with mode code
\* 8, 21.5 and 23.0 degrees, auto 0, heating 1: the refresh took the
\* temperatures and flags over and kept the preset
C31_Witness ==
    /\ op[Climate] = "async_set_preset_mode" /\ param[Climate] = "Fete"
    /\ Ended(Climate)
    /\ response.kind = "dict" /\ response.val # <<>>
    /\ Field(response, "MODE") = 8
    /\ preset = "Fete" /\ auto = 0 /\ heating = 1
    /\ current = UnpackFloat(<<0, 0, 172, 65>>, 0)
    /\ target = UnpackFloat(<<0, 0, 184, 65>>, 0)

\* the step is one of task t: its coroutine moved
Acts(t) == stack'[t] # stack[t]

\* C32: a step of an operation on one EcoMaxClient leaves the other
\* instance's _socket as it is, closes no socket the other instance holds or
\* is connecting, sending or receiving on, and leaves the state and the
\* outcome of the operation running on the other instance untouched
C32_InstancesIndependent ==
    [][\A t \in Tasks : \A u \in Tasks \ {t} :
          (Acts(t) /\ inst[u] # inst[t]) =>
              /\ socket'[inst[u]] = socket[inst[u]]
              /\ \A s \in closed' \ closed :
                     s \notin {socket[inst[u]], sock[u], rsock[u]}
              /\ stack'[u] = stack[u] /\ outcome'[u] = outcome[u]
              /\ ret'[u] = ret[u] /\ exc'[u] = exc[u]
              /\ tries'[u] = tries[u] /\ hit'[u] = hit[u]
              /\ failed'[u] = failed[u]]_vars

\* one instance is connected and holds its socket, open, while the connect
\* of the other instance failed and closed the socket it had created
C32_Witness ==
    /\ inst[Coordinator] # inst[Climate]
    /\ op[Climate] = "async_connect" /\ outcome[Climate].status = "returned"
    /\ socket[inst[Climate]] # 0 /\ socket[inst[Climate]] \notin closed
    /\ op[Coordinator] = "async_connect"
    /\ outcome[Coordinator].status = "raised"
    /\ socket[inst[Coordinator]] = 0 /\ closed # {}

(***************************************************************************)
(* C33                                                                     *)
(***************************************************************************)
\* C33: for every response frame received and either ack flag, the five
\* send and request paths (EcoMaxClient.async_send and async_request,
\* EcoMAXAPI.request, Communication.request and Communication.send) agree
\* on whether the frame is acknowledged: each accepts it exactly when the
\* flag is at hex characters 14:16
C33_AckPathsAgree ==
    \A t \in Tasks : \A k \in 1..Len(Candidates(t)) :
        \A ack \in {AckA9, AckC0} :
            LET r == Candidates(t)[k]
                at7 == Len(r) >= 16 /\ HexSlice(r, 14, 16) = ack
            IN  /\ SendAcked(r, ack) <=> at7
                /\ AckAt(r, ack) <=> at7
                /\ Api_acked(r, ack) <=> at7
                /\ Comm_request_acked(r, ack) <=> at7
                /\ Comm_send_acked(r, ack) <=> at7

(***************************************************************************)
(* C34                                                                     *)
(***************************************************************************)
\* the bytes of the SET_CODE constant
SetCodeBytes == <<85, 83, 69, 82, 45, 48, 48, 48, 0, 52, 48, 57, 53, 0>>

\* ack flags and value strings other than the ones a frame was built with
OtherAcks == {AckA9, AckC0}
OtherValues == {<<>>, <<15, 15, 0, 0>>}

\* C34: the data field of a new Trame decodes to the 14 bytes of SET_CODE,
\* then param, then value_hex when the function code is 29, and to param
\* alone for any other function code; and build() returns the same bytes
\* whatever ack_f is and, for a function code other than 29, whatever
\* value_hex is
C34_DataFieldAndBuildInputs ==
    (job.fn = "Trame" /\ trame.kind = "Trame" /\ Pristine) =>
        LET a == job.args
        IN  /\ Len(SetCodeBytes) = 14
            /\ fromhex(trame.data)
                 = BytesOf(IF a.fn = WriteFunction
                           THEN SetCodeBytes \o FromHex(a.prm)
                                  \o FromHex(a.value_hex)
                           ELSE FromHex(a.prm))
            /\ built # None =>
                 \A k \in OtherAcks : \A v \in OtherValues :
                    built = Trame_build(
                              Trame_init(a.dst, a.src, a.fn, k, a.prm,
                                         IF a.fn = WriteFunction
                                         THEN a.value_hex ELSE v))

\* a read frame was built from arguments that carry a value string and the
\* ack flag a9: its data field is the parameter alone
C34_Witness ==
    /\ job.fn = "Trame" /\ trame.kind = "Trame" /\ Pristine
    /\ job.args.fn = <<4, 0>> /\ job.args.value_hex = <<0, 1>>
    /\ job.args.prm = <<6, 4, 7, 8, 0, 0>>
    /\ built.kind = "bytes"
    /\ fromhex(trame.data) = BytesOf(<<100, 120, 0>>)

(***************************************************************************)
(* C35                                                                     *)
(***************************************************************************)
\* C35: whatever the interleaving of a poll cycle of the coordinator with
\* the thermostat entity's set-preset, set-temperature and update calls on
\* the same client, no operation raises the AssertionError of a
\* 'Socket not connected' assertion
C35_SocketAssertionsHold ==
    \A t \in Tasks : err[t] # "AssertionError" /\ exc[t] # "AssertionError"

(***************************************************************************)
(* C36                                                                     *)
(***************************************************************************)
\* the controller's one matching frame has reached task t completely: the
\* last receive got the whole frame or the second part of a cut frame
Delivered(t) ==
    \/ op[t] = "async_request" /\ batch[t] \in {3, 16, 18}
    \/ op[t] = "listen_frame" /\ batch[t] \in {14, 20}

\* the frame the controller sent to task t, as hex digits
DeliveredHex(t) ==
    IF op[t] = "async_request" THEN ToHex(FrameT(2)) ELSE ToHex(FrameDatas)

\* C36: when the controller has delivered one complete matching frame within
\* the attempt budget, async_request and listen_frame return the decode of
\* that frame however the byte stream was cut into receive batches, also
\* when the frame's bytes came in two consecutive receive calls.
C36_CutFrameIsDecoded ==
    \A t \in Tasks :
        Delivered(t) =>
            /\ outcome[t].status = "returned"
            /\ outcome[t].val =
                   extract_data(DeliveredHex(t),
                                IF op[t] = "async_request" THEN THERMOSTAT
                                ELSE PARAMETER[param[t]].dataStruct)

\* the same for whole frames only: each is decoded and returned
C36_WholeFrameIsDecoded ==
    \A t \in Tasks :
        (Delivered(t) /\ batch[t] \in {3, 14}) =>
            /\ outcome[t].status = "returned"
            /\ outcome[t].val =
                   extract_data(DeliveredHex(t),
                                IF op[t] = "async_request" THEN THERMOSTAT
                                ELSE PARAMETER[param[t]].dataStruct)

(***************************************************************************)
(* C37                                                                     *)
(***************************************************************************)
\* the step of the entity's task that assigns _preset_mode (climate.py
\* line 165) or _target_temperature (line 186)
Assigning(t) ==
    \/ Runs(t, "async_set_preset_mode", "changed")
    \/ Runs(t, "async_set_temperature", "set")

\* C37: the entity's preset_mode (target_temperature) takes the value that
\* async_set_preset_mode (async_set_temperature) was called with only if the
\* controller acknowledged the write frame; when every send attempt passed
\* without an acknowledgement the value stays as it was.
C37_StateChangesOnlyWhenAcked ==
    [][(preset' # preset \/ target' # target) => hit[Climate] # 0]_vars

\* C37 as the code has it: the entity's preset and target temperature change
\* in no step but the assignment after the client's call returned; that
\* assignment stores the requested value whether the write was acknowledged
\* or all SendMaxAttempts sends passed without an acknowledgement, and a
\* call of the client that raised leaves both as they were.
C37_StateFollowsReturn ==
    [][LET t == Climate
       IN  /\ (preset' # preset \/ target' # target) =>
                  Assigning(t) /\ sends[t] \in 1..SendMaxAttempts
           /\ Runs(t, "async_set_preset_mode", "changed") =>
                  preset' = param[t] /\ target' = target
           /\ Runs(t, "async_set_temperature", "set") =>
                  target' = FloatOf(param[t]) /\ preset' = preset
           /\ hit[t] = 0 /\ sends[t] < SendMaxAttempts =>
                  preset' = preset /\ target' = target]_vars

\* ten sends of the preset frame got no acknowledgement, async_change_preset
\* returned all the same, and the entity shows the requested preset
C37_Witness ==
    LET t == Climate
    IN  /\ op[t] = "async_set_preset_mode" /\ param[t] = "eco"
        /\ sends[t] = SendMaxAttempts /\ recvs[t] = SendMaxAttempts
        /\ hit[t] = 0 /\ err[t] = ""
        /\ Refreshing(t) /\ preset = "eco"

(***************************************************************************)
(* C38                                                                     *)
(***************************************************************************)
\* task t's operation transmits through async_send or async_request
Exchanges(t) ==
    op[t] \in {"async_send", "async_request", "async_change_preset",
               "async_set_setpoint"}

\* the attempt limit of task t's operation: max_attempts of async_send,
\* max_tries of async_request
AttemptLimit(t) ==
    IF op[t] = "async_request" THEN maxTries[t] ELSE SendMaxAttempts

\* C38: in async_send and async_request sends and receives strictly
\* alternate, starting with a send: at every point of an operation the
\* number of sends minus the number of receives is 0 or 1, the number of
\* sends never exceeds the attempt limit (10 for async_send, max_tries for
\* async_request), a send is begun only when every earlier send was followed
\* by its receive, a batch is received only for a send that has none yet,
\* and no send is begun after a matching or acknowledging batch.
C38_SendsAndReceivesAlternate ==
    /\ [](\A t \in Tasks :
             Exchanges(t) =>
                 /\ sends[t] - recvs[t] \in {0, 1}
                 /\ sends[t] <= AttemptLimit(t))
    /\ [][\A t \in Tasks :
             (Exchanges(t) /\ op'[t] = op[t] /\ nops'[t] = nops[t]) =>
                 /\ sends'[t] # sends[t] =>
                        /\ sends'[t] = sends[t] + 1
                        /\ sends[t] = recvs[t] /\ recvs'[t] = recvs[t]
                        /\ hit[t] = 0
                 /\ recvs'[t] # recvs[t] =>
                        /\ recvs'[t] = recvs[t] + 1
                        /\ sends[t] = recvs[t] + 1 /\ sends'[t] = sends[t]]_vars

\* async_send has begun its tenth and last send after nine receives without
\* an acknowledgement
C38_Witness ==
    \E t \in Tasks :
        /\ op[t] = "async_send" /\ At(t, "async_send", "sending")
        /\ sends[t] = SendMaxAttempts /\ recvs[t] = SendMaxAttempts - 1
        /\ hit[t] = 0

(***************************************************************************)
(* C39                                                                     *)
(***************************************************************************)
\* task t's operation is async_set_preset_mode with a name that is not in
\* HA_TO_EM_MODES, or listen_frame with a name that is not in PARAMETER
UnknownName(t) ==
    \/ op[t] = "async_set_preset_mode" /\ param[t] \notin DOMAIN HA_TO_EM_MODES
    \/ op[t] = "listen_frame" /\ param[t] \notin DOMAIN PARAMETER

\* C39: async_set_preset_mode with a preset name that is not in
\* HA_TO_EM_MODES and listen_frame with a parameter name that is not in
\* PARAMETER open no connection, send and receive nothing and call nothing;
\* from the call to its end the client's socket, the sockets opened and
\* closed, the entity's attributes and the coordinator's data stay as they
\* were, and the operation returns None.
C39_UnknownNameIsNoOp ==
    /\ [](\A t \in Tasks :
             UnknownName(t) =>
                 /\ sends[t] = 0 /\ recvs[t] = 0
                 /\ calls[t] = <<>> /\ sentFrames[t] = <<>>
                 /\ Ended(t) => outcome[t] = ReturnedNone)
    /\ [][\A t \in Tasks :
             UnknownName(t)' =>
                 /\ cli' = cli /\ ent' = ent
                 /\ published' = published /\ silent' = silent]_vars

\* listen_frame("GET_NOTHING") was called on a connected client and
\* returned None; the socket is still held
C39_Witness ==
    \E t \in Tasks :
        /\ op[t] = "listen_frame" /\ param[t] = "GET_NOTHING"
        /\ outcome[t] = ReturnedNone
        /\ socket[inst[t]] # 0 /\ socket[inst[t]] \notin closed

(***************************************************************************)
(* C40                                                                     *)
(***************************************************************************)
\* the preset names of table tb
TableNames(tb) ==
    IF tb = "mappings" THEN DOMAIN Mappings_HA_TO_EM_MODES
    ELSE DOMAIN HA_TO_EM_MODES

\* conv holds a lookup and the lookup of its result the other way, and the
\* two agree: a mode code in 0..7 came back as its own hex code, a preset
\* name of the table came back as itself
RoundTrips ==
    /\ (conv.from = "code" /\ conv.code \in 0..7) =>
           conv.hex # <<>> /\ IntOfHex(conv.hex) = conv.code
    /\ (conv.from = "name" /\ conv.name \in TableNames(conv.table)) =>
           conv.back = conv.name

\* C40: the preset tables are mutual inverses: for every mode code c in
\* 0..7 the hex code sent for the preset name that c maps to equals c, and
\* for every preset name p the name mapped from the code sent for p equals
\* p, for the tables of the climate entity and for em_to_ha and ha_to_em of
\* mappings.py.
C40_PresetTablesInverse == conv.n = 2 => RoundTrips

\* the same for the tables of climate.py alone
C40_ClimateTablesInverse ==
    (conv.n = 2 /\ conv.table = "climate") => RoundTrips

====
